---------------------------- MODULE Spec2Model ----------------------------
(***************************************************************************)
(* A model of genlc: the Gnet frame codec (gnet.py), the USB HID transport *)
(* with PPP stuffing and segment reassembly (transport.py) and the SAM     *)
(* group's discovery / address assignment handshake (sam.py).              *)
(*                                                                         *)
(* Bytes are integers 0..255, byte strings are sequences of bytes.  An     *)
(* Optional[bytes] is <<>> for None and <<b>> for the byte string b; an    *)
(* Optional[int] is -1 for None.                                           *)
(***************************************************************************)
EXTENDS Integers, Sequences, FiniteSets, TLC

(***************************************************************************)
(* Protocol constants (genlc/const.py).                                    *)
(***************************************************************************)
GNET_TERM == 126

GNET_BROADCAST_ADDR == 255

GNET_MULTICAST_ADDR == 240

GNET_ACK == 9

GNET_TIMEOUT == 11

CID_RACE == 254

CID_SET_RID == 253

ADAPTER_ADDR == 1

\* A loop running over every byte value.
ADDR_LIMIT_Byte == 255 + 1

\* The loop running up to and including address 128.
ADDR_LIMIT_Inclusive == 128 + 1

ADDR_LIMIT == 128

NoneInt == -1

NoneBytes == <<>>

Some(b) == <<b>>

(***************************************************************************)
(* Python helpers: slices, max, int.from_bytes / int.to_bytes.             *)
(***************************************************************************)
Min2(a, b) == IF a < b THEN a ELSE b

Max2(a, b) == IF a > b THEN a ELSE b

\* The index i of a slice bound, made absolute and clamped to 0..len.
PyIndex(i, len) == IF i < 0 THEN Max2(i + len, 0) ELSE Min2(i, len)

\* s[i:j] of Python for a 0-based sequence.
PySlice(s, i, j) == SubSeq(s, PyIndex(i, Len(s)) + 1, PyIndex(j, Len(s)))

\* s[i:] of Python.
PyFrom(s, i) == SubSeq(s, PyIndex(i, Len(s)) + 1, Len(s))

SetMax(S) == CHOOSE m \in S : \A x \in S : x <= m

RECURSIVE FromBytesBig(_)
\* int.from_bytes(b, byteorder="big")
FromBytesBig(b) ==
    IF Len(b) = 0 THEN 0
    ELSE 256 * FromBytesBig(SubSeq(b, 1, Len(b) - 1)) + b[Len(b)]

RECURSIVE ToBytesBig(_, _)
\* n.to_bytes(len, byteorder="big") for 0 <= n < 256^len
ToBytesBig(n, len) ==
    IF len = 0 THEN <<>>
    ELSE Append(ToBytesBig(n \div 256, len - 1), n % 256)

(***************************************************************************)
(* CRC-16/GSM as libscrc.gsm16 computes it: polynomial 0x1021, initial     *)
(* value 0, no reflection, final XOR 0xFFFF.                               *)
(***************************************************************************)
RECURSIVE Xor(_, _)
\* a ^ b for naturals
Xor(a, b) ==
    IF a = 0 THEN b
    ELSE IF b = 0 THEN a
    ELSE ((a + b) % 2) + 2 * Xor(a \div 2, b \div 2)

\* v with bit number i (of weight w = 2^i) flipped
FlipBit(v, w) == IF (v \div w) % 2 = 1 THEN v - w ELSE v + w

\* One bit step: shift left, and XOR the polynomial 0x1021 in (bits 12, 5
\* and 0) when the bit shifted out is set.
CrcShift(crc) ==
    IF crc >= 32768
    THEN FlipBit(FlipBit((crc * 2) % 65536, 4096), 32) + 1
    ELSE crc * 2

\* One byte step: the byte is XORed into the high byte, then 8 bit steps.
CrcByte(crc, byte) ==
    LET c0 == (Xor(crc \div 256, byte) * 256) + (crc % 256)
        c1 == CrcShift(c0)
        c2 == CrcShift(c1)
        c3 == CrcShift(c2)
        c4 == CrcShift(c3)
        c5 == CrcShift(c4)
        c6 == CrcShift(c5)
        c7 == CrcShift(c6)
    IN  CrcShift(c7)

RECURSIVE CrcRange(_, _, _, _)
\* The register after the bytes data[lo..hi], from the 16-bit register crc
\* (halving the range keeps the evaluation shallow for long messages).
CrcRange(crc, data, lo, hi) ==
    IF crc >= 65536 \/ lo > hi THEN crc % 65536
    ELSE IF lo = hi THEN CrcByte(crc, data[lo])
    ELSE LET mid == (lo + hi) \div 2
         IN  CrcRange(CrcRange(crc, data, lo, mid), data, mid + 1, hi)

\* The checksum of everything but the first byte.
gsm16_FromSecondByte(data) == 65535 - CrcRange(0, data, 2, Len(data))

\* libscrc.gsm16: CRC-16/GSM, the register inverted at the end.
gsm16(data) == 65535 - CrcRange(0, data, 1, Len(data))

(***************************************************************************)
(* gnet.py: GNetMessage.                                                   *)
(***************************************************************************)
\* construct with the checksum low byte first.
construct_ChecksumLittleEndian(address, command, data) ==
    LET checksum == gsm16(<<address, command>> \o data)
    IN  <<address, command>> \o data
            \o <<checksum % 256, checksum \div 256>>
            \o <<GNET_TERM>>

\* GNetMessage.construct: address, command, data, checksum, terminator.
construct(address, command, data) ==
    <<address, command>> \o data
        \o ToBytesBig(gsm16(<<address, command>> \o data), 2)
        \o <<GNET_TERM>>

\* GNetMessage.__init__: the message is constructed rightaway only if
\* address and command are both truthy.
GNetMessage(address, command, data) ==
    [address |-> address, command |-> command, data |-> data,
     msg |-> IF address \notin {NoneInt, 0} /\ command \notin {NoneInt, 0}
             THEN Some(construct(address, command, data)) ELSE NoneBytes]

(***************************************************************************)
(* gnet.py: GNetResponseMessage.                                           *)
(***************************************************************************)
\* GNetResponseMessage.__init__
NewResponse(msg) ==
    [msg |-> Some(msg), response_code |-> NoneInt, response |-> NoneBytes]

\* parse that looks at the terminator before the response code.
parse_TerminatorFirst(r) ==
    IF r.msg = NoneBytes \/ Len(r.msg[1]) = 0
    THEN [obj |-> r, exc |-> "AssertionError", why |-> "assert"]
    ELSE IF Len(r.msg[1]) < 2
    THEN [obj |-> r, exc |-> "IndexError", why |-> "index"]
    ELSE LET msg == r.msg[1]
             r1 == [r EXCEPT !.response_code = msg[2]]
             checksum == FromBytesBig(PySlice(msg, -3, -1))
             calculated_checksum == gsm16(PySlice(msg, 0, -3))
         IN  IF msg[Len(msg)] # GNET_TERM
             THEN [obj |-> r1, exc |-> "GNetException", why |-> "terminator"]
             ELSE IF r1.response_code = GNET_TIMEOUT
             THEN [obj |-> r1, exc |-> "GNetTimeoutException",
                   why |-> "timeout"]
             ELSE IF r1.response_code # GNET_ACK
             THEN [obj |-> r1, exc |-> "GNetException",
                   why |-> "response code"]
             ELSE IF calculated_checksum # checksum
             THEN [obj |-> r1, exc |-> "GNetException", why |-> "checksum"]
             ELSE [obj |-> [r1 EXCEPT !.response = Some(PySlice(msg, 2, -3))],
                   exc |-> "None", why |-> "none"]

\* GNetResponseMessage.parse on the object r: the object after the call, the
\* exception raised ("None" when parse returns) and the statement that
\* raised it.
parse(r) ==
    IF r.msg = NoneBytes \/ Len(r.msg[1]) = 0
    THEN [obj |-> r, exc |-> "AssertionError", why |-> "assert"]
    ELSE IF Len(r.msg[1]) < 2
    THEN [obj |-> r, exc |-> "IndexError", why |-> "index"]
    ELSE LET msg == r.msg[1]
             r1 == [r EXCEPT !.response_code = msg[2]]
             checksum == FromBytesBig(PySlice(msg, -3, -1))
             calculated_checksum == gsm16(PySlice(msg, 0, -3))
         IN  IF r1.response_code = GNET_TIMEOUT
             THEN [obj |-> r1, exc |-> "GNetTimeoutException",
                   why |-> "timeout"]
             ELSE IF r1.response_code # GNET_ACK
             THEN [obj |-> r1, exc |-> "GNetException",
                   why |-> "response code"]
             ELSE IF msg[Len(msg)] # GNET_TERM
             THEN [obj |-> r1, exc |-> "GNetException", why |-> "terminator"]
             ELSE IF calculated_checksum # checksum
             THEN [obj |-> r1, exc |-> "GNetException", why |-> "checksum"]
             ELSE [obj |-> [r1 EXCEPT !.response = Some(PySlice(msg, 2, -3))],
                   exc |-> "None", why |-> "none"]

(***************************************************************************)
(* transport.py: BaseTransport with _read supplied by the environment (the *)
(* fixture of tests/conftest.py): receive wraps what _read returns in a    *)
(* GNetResponseMessage and parses it.                                      *)
(***************************************************************************)
\* A raised exception: its class and the function that raised it.
Exc(type, origin) == [type |-> type, origin |-> origin]

NoExc == Exc("None", "None")

\* BaseTransport.receive(parse=True) on the raw message _read returned.
receive(raw) ==
    LET p == parse(NewResponse(raw))
    IN  [exc |-> IF p.exc = "None" THEN NoExc ELSE Exc(p.exc, "parse"),
         response |-> p.obj.response]

(***************************************************************************)
(* A response as a device puts it on the bus: leading byte, status,        *)
(* payload, CRC of those, terminator; and the damaged variants.            *)
(***************************************************************************)
\* A status that is neither the ack nor the timeout code.
GNET_NACK == CHOOSE status \in 0..255 : status \notin {GNET_ACK, GNET_TIMEOUT}

ResponseFrame(status, payload) == construct(ADAPTER_ADDR, status, payload)

\* The frame with its low checksum byte changed.
BadChecksum(frame) ==
    [frame EXCEPT ![Len(frame) - 1] = (frame[Len(frame) - 1] + 1) % 256]

\* The frame with its terminator replaced.
BadTerminator(frame) == [frame EXCEPT ![Len(frame)] = 0]

DamagedReads(payload) ==
    { ResponseFrame(GNET_TIMEOUT, <<>>),
      ResponseFrame(GNET_TIMEOUT, payload),
      ResponseFrame(GNET_NACK, payload),
      BadChecksum(ResponseFrame(GNET_ACK, payload)),
      BadTerminator(ResponseFrame(GNET_ACK, payload)) }

(***************************************************************************)
(* Bounds of the model and the inputs drawn from the environment.          *)
(***************************************************************************)
\* At most this many devices answer a race with a serial in one session.
MaxBusDevices == 3

Serials == {66051, 263430}

\* Addresses of monitors constructed by hand (SAMMonitor(address, group)).
PresetAddrs == {126, 240}

SerialBytes(serial) == ToBytesBig(serial, 3)

\* What _read may return to a race: a serial, a payload of another length,
\* or a damaged frame.
\* Payloads of a length a serial does not have.
NonSerialPayloads == {<<>>, <<1, 2>>, <<1, 2, 3, 4>>}

\* Payloads a device may answer the assignment of address with.
AssignPayloads(address) ==
    { <<address>>, <<>>, <<(address + 1) % 256>>, <<address, address>> }

\* The acked response frame of every payload of the environment, computed
\* once.
AckFrame ==
    [p \in { SerialBytes(s) : s \in Serials } \cup NonSerialPayloads
           \cup UNION { AssignPayloads(a) : a \in 1..255 } |->
        ResponseFrame(GNET_ACK, p)]

SerialReads == { AckFrame[SerialBytes(s)] : s \in Serials }

OtherRaceReads ==
    { AckFrame[p] : p \in NonSerialPayloads }
    \cup DamagedReads(SerialBytes(66051))
    \cup {<<GNET_TERM>>}

\* What _read may return to a race when n devices have answered so far.
RaceReads(n) ==
    (IF n < MaxBusDevices THEN SerialReads ELSE {}) \cup OtherRaceReads

\* What _read may return to the assignment of each address.
AssignReadsOf ==
    [address \in 1..255 |->
        { AckFrame[p] : p \in AssignPayloads(address) }
        \cup DamagedReads(<<address>>)]

AssignReads(address) == AssignReadsOf[address]

\* receive on every raw message of the environment, computed once.
ReceiveOf ==
    [raw \in SerialReads \cup OtherRaceReads
             \cup UNION { AssignReadsOf[a] : a \in DOMAIN AssignReadsOf } |->
        receive(raw)]

(***************************************************************************)
(* sam.py: the devices dict, in insertion order, as a sequence of          *)
(* [address, serial] entries with unique addresses.                        *)
(***************************************************************************)
Keys(d) == { d[i].address : i \in 1..Len(d) }

\* d[address] = device: replaces in place or appends.
DictSet(d, dev) ==
    IF dev.address \in Keys(d)
    THEN [i \in 1..Len(d) |->
            IF d[i].address = dev.address THEN dev ELSE d[i]]
    ELSE Append(d, dev)

Device(address, serial) == [address |-> address, serial |-> serial]

\* race accepting any payload of at least 3 bytes.
race_AtLeast3(out) ==
    IF out.exc # NoExc
    THEN [exc |-> out.exc, serial |-> NoneInt]
    ELSE IF Len(out.response[1]) >= 3
    THEN [exc |-> NoExc, serial |-> FromBytesBig(out.response[1])]
    ELSE [exc |-> Exc("GNetException", "race"), serial |-> NoneInt]

\* SAMGroup.race once the transport has answered with out.
race(out) ==
    IF out.exc # NoExc
    THEN [exc |-> out.exc, serial |-> NoneInt]
    ELSE IF Len(out.response[1]) = 3
    THEN [exc |-> NoExc, serial |-> FromBytesBig(out.response[1])]
    ELSE [exc |-> Exc("GNetException", "race"), serial |-> NoneInt]

\* race addressing the multicast address.
race_msg_Multicast == GNetMessage(GNET_MULTICAST_ADDR, CID_RACE, <<>>)

\* The frame SAMGroup.race sends.
race_msg == GNetMessage(GNET_BROADCAST_ADDR, CID_RACE, <<>>)

\* The frame SAMGroup.assign_address sends.
assign_msg(serial, address) ==
    GNetMessage(GNET_MULTICAST_ADDR, CID_SET_RID,
                ToBytesBig(serial, 3) \o <<address>>)

\* assign_address comparing only the first byte of the response.
assign_address_FirstByte(address, out) ==
    IF out.exc # NoExc THEN out.exc
    ELSE IF Len(out.response[1]) = 0 \/ out.response[1][1] # address
    THEN Exc("GNetException", "assign_address")
    ELSE NoExc

\* SAMGroup.assign_address once the transport has answered with out: the
\* exception raised, if any.
assign_address(address, out) ==
    IF out.exc # NoExc THEN out.exc
    ELSE IF out.response[1] # <<address>>
    THEN Exc("GNetException", "assign_address")
    ELSE NoExc

(***************************************************************************)
(* transport.py: USBTransport.  A call is a record: where it stands (pc),  *)
(* what it was called with, the segments _read has collected, the          *)
(* exception raised, the message _read returned, the returned object, and  *)
(* io: the calls of send and receive and the writes and reads of the hid   *)
(* handle, in the order they happened.                                     *)
(***************************************************************************)
\* USBTransport.MAX_SEGMENTS
MAX_SEGMENTS == 3

\* USBTransport.MAX_PACKET_LEN
MAX_PACKET_LEN == 64

\* The padding byte b"\0".
NUL == 0

\* The PPP escape byte and the second bytes of the two escape pairs.
PPP_ESC == 125

PPP_ESC_ESC == 93

PPP_ESC_TERM == 94

\* The largest value bytes((..,)) accepts.
BYTE_MAX == 255

\* s.replace(bytes((b,)), bytes((r1, r2)))
ReplaceByte(s, b, r1, r2) ==
    LET slots == [k \in 1..(2 * Len(s)) |-> k]
        kept == SelectSeq(slots, LAMBDA k : k % 2 = 1 \/ s[k \div 2] = b)
    IN  [j \in 1..Len(kept) |->
            LET k == kept[j]
                i == (k + 1) \div 2
            IN  IF s[i] # b THEN s[i]
                ELSE IF k % 2 = 1 THEN r1 ELSE r2]

\* replace that stops after the first occurrence.
ReplacePair_FirstOnly(s, a, b, r) ==
    LET found(i) == i >= 1 /\ i < Len(s) /\ s[i] = a /\ s[i + 1] = b
        matched(i) == found(i) /\ \A k \in 1..(i - 1) : ~found(k)
        kept == SelectSeq([i \in 1..Len(s) |-> i],
                          LAMBDA i : ~matched(i - 1))
    IN  [j \in 1..Len(kept) |->
            IF matched(kept[j]) THEN r ELSE s[kept[j]]]

\* s.replace(bytes((a, b)), bytes((r,))) for a # b: two matches cannot
\* overlap, so the left-to-right scan replaces every occurrence.
ReplacePair(s, a, b, r) ==
    LET matched(i) == i >= 1 /\ i < Len(s) /\ s[i] = a /\ s[i + 1] = b
        kept == SelectSeq([i \in 1..Len(s) |-> i],
                          LAMBDA i : ~matched(i - 1))
    IN  [j \in 1..Len(kept) |->
            IF matched(kept[j]) THEN r ELSE s[kept[j]]]

\* escape replacing the terminator bytes before the escape bytes.
escape_TermFirst(msg) ==
    IF msg = <<>>
    THEN [exc |-> Exc("IndexError", "escape"), out |-> <<>>]
    ELSE IF msg[Len(msg)] # GNET_TERM
    THEN [exc |-> Exc("AssertionError", "escape"), out |-> <<>>]
    ELSE [exc |-> NoExc,
          out |-> ReplaceByte(ReplaceByte(PySlice(msg, 0, -1),
                                          GNET_TERM, PPP_ESC, PPP_ESC_TERM),
                              PPP_ESC, PPP_ESC, PPP_ESC_ESC)
                  \o <<GNET_TERM>>]

\* escape replacing the escape bytes only.
escape_EscOnly(msg) ==
    IF msg = <<>>
    THEN [exc |-> Exc("IndexError", "escape"), out |-> <<>>]
    ELSE IF msg[Len(msg)] # GNET_TERM
    THEN [exc |-> Exc("AssertionError", "escape"), out |-> <<>>]
    ELSE [exc |-> NoExc,
          out |-> ReplaceByte(PySlice(msg, 0, -1),
                              PPP_ESC, PPP_ESC, PPP_ESC_ESC)
                  \o <<GNET_TERM>>]

\* USBTransport.escape: PPP stuffing of everything before the terminator.
escape(msg) ==
    IF msg = <<>>
    THEN [exc |-> Exc("IndexError", "escape"), out |-> <<>>]
    ELSE IF msg[Len(msg)] # GNET_TERM
    THEN [exc |-> Exc("AssertionError", "escape"), out |-> <<>>]
    ELSE [exc |-> NoExc,
          out |-> ReplaceByte(ReplaceByte(PySlice(msg, 0, -1),
                                          PPP_ESC, PPP_ESC, PPP_ESC_ESC),
                              GNET_TERM, PPP_ESC, PPP_ESC_TERM)
                  \o <<GNET_TERM>>]

\* USBTransport.unescape: PPP destuffing.
unescape(msg) ==
    ReplacePair(ReplacePair(msg, PPP_ESC, PPP_ESC_TERM, GNET_TERM),
                PPP_ESC, PPP_ESC_ESC, PPP_ESC)

\* The two replacements of unescape in the other order: the escape byte
\* first, the terminator second.
unescape_other_order(msg) ==
    ReplacePair(ReplacePair(msg, PPP_ESC, PPP_ESC_ESC, PPP_ESC),
                PPP_ESC, PPP_ESC_TERM, GNET_TERM)

\* s.rstrip(b"\0")
rstrip(s) ==
    LET nz == { i \in 1..Len(s) : s[i] # NUL }
    IN  SubSeq(s, 1, IF nz = {} THEN 0 ELSE SetMax(nz))

\* endswith taking any last byte.
endswith_Any(s) == s # <<>>

\* s.endswith(bytes((const.GNET_TERM,)))
endswith(s) == s # <<>> /\ s[Len(s)] = GNET_TERM

RECURSIVE join(_)
\* bytearray().join(segment[1:] for segment in segments)
join(segments) ==
    IF segments = <<>> THEN <<>>
    ELSE join(SubSeq(segments, 1, Len(segments) - 1))
         \o PyFrom(segments[Len(segments)], 1)

\* GNetResponseMessage() before it holds a message; also what send returns.
NoResponse ==
    [msg |-> NoneBytes, response_code |-> NoneInt, response |-> NoneBytes]

\* A frame nobody has set the address and command of.
NoMessage == GNetMessage(NoneInt, NoneInt, <<>>)

\* An entry of io.
Event(op, data, exc) == [op |-> op, data |-> data, exc |-> exc]

\* A call of send, receive or send_receive that has just been entered.
NewCall(op, message) ==
    [pc |-> "running", op |-> op, message |-> message, parse |-> TRUE,
     segments |-> <<>>, io |-> <<>>, exc |-> NoExc, raw |-> NoneBytes,
     result |-> NoResponse]

\* No call was made yet.
NoCall == [NewCall("none", NoMessage) EXCEPT !.pc = "idle"]

\* The call raises exc.
Raise(u, exc) == [u EXCEPT !.pc = "raised", !.exc = exc]

\* The call returns resp.
Return(u, resp) == [u EXCEPT !.pc = "returned", !.result = resp]

\* send writing the header byte and the escaped message separately.
USBTransport_send_TwoWrites(u, message, wexc) ==
    LET u1 == [u EXCEPT !.io = Append(@, Event("send", <<>>, NoExc))]
    IN  IF message.msg = NoneBytes \/ message.msg[1] = <<>>
        THEN Raise(u1, Exc("AssertionError", "send"))
        ELSE LET msg == escape(message.msg[1])
             IN  IF msg.exc # NoExc
                 THEN Raise(u1, msg.exc)
                 ELSE IF 128 + Len(msg.out) > BYTE_MAX
                 THEN Raise(u1, Exc("ValueError", "send"))
                 ELSE LET u2 == [u1 EXCEPT !.io =
                                     Append(Append(@,
                                         Event("write", <<128 + Len(msg.out)>>,
                                               NoExc)),
                                         Event("write", msg.out, wexc))]
                      IN  IF wexc # NoExc THEN Raise(u2, wexc) ELSE u2

\* send with a header byte that wraps around: (0x80 + len(msg)) % 256.
USBTransport_send_WrapHeader(u, message, wexc) ==
    LET u1 == [u EXCEPT !.io = Append(@, Event("send", <<>>, NoExc))]
    IN  IF message.msg = NoneBytes \/ message.msg[1] = <<>>
        THEN Raise(u1, Exc("AssertionError", "send"))
        ELSE LET msg == escape(message.msg[1])
             IN  IF msg.exc # NoExc
                 THEN Raise(u1, msg.exc)
                 ELSE LET payload ==
                              <<(128 + Len(msg.out)) % 256>> \o msg.out
                          u2 == [u1 EXCEPT !.io =
                                     Append(@, Event("write", payload, wexc))]
                      IN  IF wexc # NoExc THEN Raise(u2, wexc) ELSE u2

\* USBTransport.send(message); wexc is what adapter.write raises.
USBTransport_send(u, message, wexc) ==
    LET u1 == [u EXCEPT !.io = Append(@, Event("send", <<>>, NoExc))]
    IN  IF message.msg = NoneBytes \/ message.msg[1] = <<>>
        THEN Raise(u1, Exc("AssertionError", "send"))
        ELSE LET msg == escape(message.msg[1])
             IN  IF msg.exc # NoExc
                 THEN Raise(u1, msg.exc)
                 ELSE IF 128 + Len(msg.out) > BYTE_MAX
                 THEN Raise(u1, Exc("ValueError", "send"))
                 ELSE LET payload == <<128 + Len(msg.out)>> \o msg.out
                          u2 == [u1 EXCEPT !.io =
                                     Append(@, Event("write", payload, wexc))]
                      IN  IF wexc # NoExc THEN Raise(u2, wexc) ELSE u2

\* USBTransport.receive from the return of _read on.
receive_message(u, message) ==
    LET resp == NewResponse(message)
        u1 == [u EXCEPT !.raw = Some(message)]
    IN  IF ~u.parse
        THEN Return(u1, resp)
        ELSE LET p == parse(resp)
             IN  IF p.exc = "None"
                 THEN Return(u1, p.obj)
                 ELSE Raise(u1, Exc(p.exc, "parse"))

\* The test of the while loop looking at the whole last segment.
Terminated_NoStrip(segments) ==
    segments # <<>> /\ endswith(segments[Len(segments)])

\* The negation of the test of the while loop of _read.
Terminated(segments) ==
    segments # <<>> /\ endswith(rstrip(segments[Len(segments)]))

\* _read from the test of its loop up to the next adapter.read, or to the end
\* of receive.
read_loop(u) ==
    IF Terminated(u.segments)
    THEN receive_message(u, unescape(rstrip(join(u.segments))))
    ELSE IF Len(u.segments) + 1 > MAX_SEGMENTS
    THEN Raise(u, Exc("GNetException", "_read"))
    ELSE [u EXCEPT !.pc = "read"]

\* _read without the assertion on the first byte of the packet.
read_packet_NoLengthByteCheck(u, r) ==
    LET u1 == [u EXCEPT !.io = Append(@, Event("read", r.data, r.exc))]
        u2 == [u1 EXCEPT !.segments = Append(@, r.data)]
    IN  IF r.exc # NoExc
        THEN Raise(u1, r.exc)
        ELSE IF r.data = <<>>
        THEN Raise(u2, Exc("IndexError", "_read"))
        ELSE IF Len(r.data) # MAX_PACKET_LEN
        THEN Raise(u2, Exc("AssertionError", "_read"))
        ELSE read_loop(u2)

\* _read after adapter.read returned r.data or raised r.exc.
read_packet(u, r) ==
    LET u1 == [u EXCEPT !.io = Append(@, Event("read", r.data, r.exc))]
        u2 == [u1 EXCEPT !.segments = Append(@, r.data)]
    IN  IF r.exc # NoExc
        THEN Raise(u1, r.exc)
        ELSE IF r.data = <<>>
        THEN Raise(u2, Exc("IndexError", "_read"))
        ELSE IF r.data[1] # MAX_PACKET_LEN - 1
        THEN Raise(u2, Exc("AssertionError", "_read"))
        ELSE IF Len(r.data) # MAX_PACKET_LEN
        THEN Raise(u2, Exc("AssertionError", "_read"))
        ELSE read_loop(u2)

\* USBTransport.receive(parse) up to the first adapter.read.
USBTransport_receive(u, doParse) ==
    read_loop([u EXCEPT !.io = Append(@, Event("receive", <<>>, NoExc)),
                        !.parse = doParse, !.segments = <<>>])

\* send_receive that calls receive whatever send did.
send_receive_ReceiveAnyway(message, wexc) ==
    USBTransport_receive(
        USBTransport_send(NewCall("send_receive", message), message, wexc),
        TRUE)

\* BaseTransport.send_receive(message) up to the first adapter.read.
send_receive(message, wexc) ==
    LET u == USBTransport_send(NewCall("send_receive", message), message, wexc)
    IN  IF u.pc = "raised" THEN u ELSE USBTransport_receive(u, TRUE)

(***************************************************************************)
(* The hid handle: what adapter.write and adapter.read may do.             *)
(***************************************************************************)
\* hid.Device raises HIDException when the device fails.
HIDException(origin) == Exc("HIDException", origin)

WriteOutcomes == {NoExc, HIDException("write")}

\* A 64-byte packet: the length byte, the content, NUL padding.
Packet(content) ==
    <<MAX_PACKET_LEN - 1>> \o content
        \o [i \in 1..(MAX_PACKET_LEN - 1 - Len(content)) |-> NUL]

RECURSIVE Packetize(_)
\* The packets of a stuffed frame, 63 content bytes each.
Packetize(stuffed) ==
    IF Len(stuffed) <= MAX_PACKET_LEN - 1
    THEN <<Packet(stuffed)>>
    ELSE <<Packet(SubSeq(stuffed, 1, MAX_PACKET_LEN - 1))>>
         \o Packetize(SubSeq(stuffed, MAX_PACKET_LEN, Len(stuffed)))

\* A response frame as the adapter delivers it.
OnWire(frame) == Packetize(escape(frame).out)

Range(s) == { s[i] : i \in 1..Len(s) }

\* Responses that fit one packet: a serial, a timeout, a refusal, a wrong
\* checksum, a lone terminator.
ShortFrames ==
    { AckFrame[SerialBytes(66051)],
      ResponseFrame(GNET_TIMEOUT, <<>>),
      ResponseFrame(GNET_NACK, <<>>),
      BadChecksum(AckFrame[<<1, 2>>]),
      <<GNET_TERM>> }

\* The segments of test_usbtransport_receive.
TestSegments ==
    << Packet([i \in 1..63 |-> i - 1]), Packet(<<0, 0, GNET_TERM>>) >>

\* A response whose payload holds a terminator byte at the place where its
\* escape pair is split over two packets.
SplitEscapeFrame ==
    ResponseFrame(GNET_ACK, [i \in 1..62 |-> IF i = 61 THEN GNET_TERM ELSE i])

\* A response of three packets whose first two end in NUL bytes.
ThreePacketFrame == ResponseFrame(GNET_ACK, [i \in 1..125 |-> NUL])

\* Packets _read rejects: a wrong length byte (with and without a
\* terminator behind it), a short packet, an empty read.
MalformedPackets ==
    { [Packet(<<>>) EXCEPT ![1] = GNET_TERM],
      [Packet(AckFrame[<<1, 2>>]) EXCEPT ![1] = MAX_PACKET_LEN - 2],
      <<MAX_PACKET_LEN - 1>> \o AckFrame[<<1, 2>>],
      <<>> }

\* A packet whose content is a stuffed terminator, a lone escape byte and
\* the terminator.
StrayEscapePacket == Packet(<<PPP_ESC, PPP_ESC_TERM, PPP_ESC, GNET_TERM>>)

\* What adapter.read(64) may return.
Packets ==
    UNION { Range(OnWire(f)) : f \in ShortFrames }
    \cup Range(TestSegments)
    \cup Range(OnWire(SplitEscapeFrame))
    \cup Range(OnWire(ThreePacketFrame))
    \cup MalformedPackets
    \cup {Packet(<<>>), StrayEscapePacket}

ReadOutcomes ==
    { [data |-> p, exc |-> NoExc] : p \in Packets }
    \cup { [data |-> <<>>, exc |-> HIDException("read")] }

\* A message of 67 bytes, 62 of them terminator bytes to escape.
ManyEscapesMessage == GNetMessage(2, CID_RACE, [i \in 1..62 |-> GNET_TERM])

\* The messages at the limit of the header byte: 127 bytes escaped (no byte
\* of it is escaped), and 128.
LongestSentMessage == GNetMessage(2, CID_RACE, [i \in 1..122 |-> 1])

ShortestRefusedMessage == GNetMessage(2, CID_RACE, [i \in 1..123 |-> 1])

\* Frames handed to send: the race, one with bytes to escape, one never
\* constructed, one whose escaped length does not fit the header byte.
UsbMessages ==
    { race_msg,
      GNetMessage(2, GNET_TERM, <<PPP_ESC, GNET_TERM, PPP_ESC_ESC>>),
      GNetMessage(0, CID_RACE, <<>>),
      GNetMessage(2, CID_RACE, [i \in 1..125 |-> i]),
      ManyEscapesMessage, LongestSentMessage, ShortestRefusedMessage }

(***************************************************************************)
(* sam.py: the devices.  A BaseDevice is its class, its address and its    *)
(* poll_fields dict; a dict is a function from its keys to its values, and *)
(* a value is an int or the float a conversion gives for an int.           *)
(***************************************************************************)
\* const.CID_POLL, const.CID_BYPASS_QUERY and const.CID_DIGISUM_GAIN: command
\* bytes of their own.
CID_POLL ==
    CHOOSE c \in 1..255 : c \notin {CID_RACE, CID_SET_RID}

CID_BYPASS_QUERY ==
    CHOOSE c \in 1..255 : c \notin {CID_RACE, CID_SET_RID, CID_POLL}

CID_DIGISUM_GAIN ==
    CHOOSE c \in 1..255 :
        c \notin {CID_RACE, CID_SET_RID, CID_POLL, CID_BYPASS_QUERY}

\* The int n as a value of a dict.
IntValue(n) == [fn |-> "int", arg |-> n]

\* util.dBSPL_from_sint24(vol_linear): 20 * log10(vol_linear / 20.0), a float
\* that is kept as the application it is.
dBSPL_from_sint24(vol_linear) == [fn |-> "dBSPL_from_sint24", arg |-> vol_linear]

\* {}
EmptyDict == <<>>

\* d.update(fields)
DictUpdate(d, fields) ==
    [k \in DOMAIN d \cup DOMAIN fields |->
        IF k \in DOMAIN fields THEN fields[k] ELSE d[k]]

RECURSIVE Pow256(_)
\* 256 ** n
Pow256(n) == IF n = 0 THEN 1 ELSE 256 * Pow256(n - 1)

\* int.from_bytes(b, byteorder="big", signed=True)
FromBytesBigSigned(b) ==
    IF b # <<>> /\ b[1] >= 128
    THEN FromBytesBig(b) - Pow256(Len(b))
    ELSE FromBytesBig(b)

\* What a call of a device method leaves: the exception raised, the value
\* returned (<<>> for None, <<fields>> for a dict), the poll_fields it
\* leaves and the messages it handed to send_receive.
Outcome(exc, ret, poll_fields, msgs) ==
    [exc |-> exc, ret |-> ret, poll_fields |-> poll_fields, msgs |-> msgs]

\* USBAdapter.poll once the transport has answered with out.
USBAdapter_poll(address, poll_fields, out) ==
    LET msg == GNetMessage(address, CID_POLL, <<>>)
    IN  IF out.exc # NoExc
        THEN Outcome(out.exc, <<>>, poll_fields, <<msg>>)
        ELSE LET resp == out.response[1]
                 spl_raw == FromBytesBigSigned(PySlice(resp, 3, 6))
                 fields ==
                     [k \in {"microphone_dBSPL"} |->
                         IF spl_raw > 0 THEN dBSPL_from_sint24(spl_raw)
                         ELSE IntValue(0)]
             IN  Outcome(NoExc, <<fields>>, DictUpdate(poll_fields, fields),
                         <<msg>>)

\* The fields SAMMonitor.poll decodes.
MonitorFields == {"temperature", "input_dBFS", "output_dBFS"}

\* SAMMonitor.poll once the transport has answered with out.
SAMMonitor_poll(address, poll_fields, out) ==
    LET msg == GNetMessage(address, CID_POLL, <<>>)
    IN  IF out.exc # NoExc
        THEN Outcome(out.exc, <<>>, poll_fields, <<msg>>)
        ELSE LET resp == out.response[1]
             IN  IF resp = <<>>
                 THEN Outcome(NoExc, <<>>, poll_fields, <<msg>>)
                 ELSE IF Len(resp) < 2
                 THEN Outcome(Exc("IndexError", "poll"), <<>>, poll_fields,
                              <<msg>>)
                 ELSE LET fields ==
                              [k \in MonitorFields |->
                                  IF k = "temperature"
                                  THEN IntValue(resp[2])
                                  ELSE IF k = "input_dBFS"
                                  THEN IntValue(FromBytesBigSigned(
                                           PySlice(resp, 6, 7)))
                                  ELSE IntValue(FromBytesBigSigned(
                                           PySlice(resp, 12, 13)))]
                      IN  Outcome(NoExc, <<fields>>,
                                  DictUpdate(poll_fields, fields), <<msg>>)

RECURSIVE BitOr(_, _)
\* a | b for naturals
BitOr(a, b) ==
    IF a = 0 THEN b
    ELSE IF b = 0 THEN a
    ELSE (IF a % 2 = 1 \/ b % 2 = 1 THEN 1 ELSE 0)
         + 2 * BitOr(a \div 2, b \div 2)

\* An Optional[bool] argument: None, False, True.
OptBool == {NoneInt, 0, 1}

\* The led_color argument: None, an int, or one of the four names with the
\* value const holds for it (LED_GREEN, LED_RED, LED_YELLOW, LED_OFF).
NoColor == [kind |-> "None", name |-> "", code |-> 0]

IntColor(code) == [kind |-> "int", name |-> "", code |-> code]

NamedColor(name, code) == [kind |-> "str", name |-> name, code |-> code]

LedNames == {"green", "red", "yellow", "off"}

\* The values const may hold for the names: 2-bit colour codes.
LedCodes == 0..3

\* bypass shifting the colour code into bits 2 and 3.
bypass_ColorShifted(address, value, mute, led_color, led_pulsing, invert_led_enable) ==
    LET v1 == IF mute # NoneInt THEN BitOr(value, mute) ELSE value
        v2 == IF led_color.kind # "None"
              THEN BitOr(v1, (led_color.code % 4) * 4) ELSE v1
        v3 == IF led_pulsing # NoneInt THEN BitOr(v2, led_pulsing * 8) ELSE v2
        v4 == IF invert_led_enable # NoneInt
              THEN BitOr(v3, invert_led_enable * 16) ELSE v3
    IN  IF v4 > BYTE_MAX
        THEN [exc |-> Exc("OverflowError", "bypass"), msgs |-> <<>>]
        ELSE [exc |-> NoExc,
              msgs |-> <<GNetMessage(address, CID_BYPASS_QUERY, <<v4>>)>>]

\* SAMMonitor.bypass up to the call of send_receive: the exception raised
\* before it, or the message handed to it.
bypass(address, value, mute, led_color, led_pulsing, invert_led_enable) ==
    LET v1 == IF mute # NoneInt THEN BitOr(value, mute) ELSE value
        v2 == IF led_color.kind # "None"
              THEN BitOr(v1, (led_color.code % 4) * 2) ELSE v1
        v3 == IF led_pulsing # NoneInt THEN BitOr(v2, led_pulsing * 8) ELSE v2
        v4 == IF invert_led_enable # NoneInt
              THEN BitOr(v3, invert_led_enable * 16) ELSE v3
    IN  IF v4 > BYTE_MAX
        THEN [exc |-> Exc("OverflowError", "bypass"), msgs |-> <<>>]
        ELSE [exc |-> NoExc,
              msgs |-> <<GNetMessage(address, CID_BYPASS_QUERY, <<v4>>)>>]

\* SAMMonitor.mute(mute)
mute_bypass(address, mute) ==
    bypass(address, 0, mute, NoColor, NoneInt, NoneInt)

\* SAMMonitor.set_digisum_gain up to the call of send_receive:
\* gain.to_bytes(2, byteorder="big") takes 0..65535 only.
set_digisum_gain(address, gain) ==
    IF gain < 0 \/ gain >= Pow256(2)
    THEN [exc |-> Exc("OverflowError", "set_digisum_gain"), msgs |-> <<>>]
    ELSE [exc |-> NoExc,
          msgs |-> <<GNetMessage(address, CID_DIGISUM_GAIN,
                                 ToBytesBig(gain, 2))>>]

(***************************************************************************)
(* The environment of the devices: what the transport answers a poll with, *)
(* and the arguments the caller passes.                                    *)
(***************************************************************************)
\* The response of test_SAMMonitor_poll.
TestPollPayload ==
    <<65, 22, 131, 0, 30, 66, 150, 70, 147, 67, 128, 69, 130, 71, 1, 132, 1,
      101>>

\* Payloads of a poll: none, the test's, one with a negative value and one
\* with zero in bytes 3..5, a single byte, one that ends within bytes 3..5,
\* one that ends with them, and one with the largest and the smallest dBFS.
PollPayloads ==
    { <<>>, TestPollPayload,
      <<0, 0, 0, 255, 255, 254, 0, 0, 0, 0, 0, 0, 0>>,
      <<0, 40, 0, 0, 0, 0, 200, 0, 0, 0, 0, 0, 7>>,
      <<5>>,
      <<0, 0, 0, 128, 1>>,
      <<1, 2, 3, 0, 0, 1>>,
      <<9, 250, 0, 0, 0, 0, 127, 0, 0, 0, 0, 0, 128, 0>> }

\* What send_receive gives a poll: the parsed response, or the exception.
PollOuts ==
    { receive(ResponseFrame(GNET_ACK, p)) : p \in PollPayloads }
    \cup { receive(ResponseFrame(GNET_TIMEOUT, <<>>)),
           receive(BadChecksum(ResponseFrame(GNET_ACK, TestPollPayload))) }

\* Addresses of the monitors the methods are called on.
MonitorAddrs == {2, 5}

\* Gains handed to set_digisum_gain: the ends of the int16 range and values
\* around zero and around one byte.
Gains == {-32768, -256, -1, 0, 1, 255, 256, 32767}

VARIABLES
    devices,    \* SAMGroup.devices
    gen,        \* the discover_monitors generator in use
    calls,      \* race / assign_address calls of the generator in use
    sent,       \* frames handed to transport.send by the generator in use
    yielded,    \* devices the generator in use has yielded
    nRaced,     \* races answered with a serial in this session
    usb,        \* the USBTransport call in progress or last made
    gnrm,       \* a GNetResponseMessage and what its last parse did
    gmsg,       \* a GNetMessage and what was done with it
    ppp,        \* a byte string, escaped and unescaped
    bus,        \* the wakeup_all and shutdown_all calls of the session
    mon,        \* a device, its poll_fields and the last call made on it
    hid,        \* the call stack over the hid handle and the handle's trace
    cmd         \* the poll command of the command line and what it did

vars ==
    <<devices, gen, calls, sent, yielded, nRaced, usb, gnrm, gmsg, ppp, bus,
      mon, hid, cmd>>

\* The state of the SAMGroup.
sgVars == <<devices, gen, calls, sent, yielded, nRaced>>

\* What the operations of the SAMGroup leave alone.
nonGroupVars == <<usb, gnrm, gmsg, ppp, bus, mon, hid, cmd>>

\* What the calls of the USBTransport leave alone.
nonUsbVars == <<sgVars, gnrm, gmsg, ppp, bus, mon, hid, cmd>>

NoGen == [pc |-> "none", all |-> FALSE, pos |-> 0, used |-> 0,
          addr |-> 0, exc |-> NoExc]

(***************************************************************************)
(* A GNetResponseMessage in the hands of a caller, as in                   *)
(* test_GNetResponseMessage_parse: the object, the exception of its last   *)
(* parse with the statement that raised it, the last thing done to the     *)
(* object, and the place of the byte overwritten in msg (0: none).         *)
(***************************************************************************)
\* A GNetResponseMessage nothing was done to yet.
Held(obj) ==
    [obj |-> obj, last |-> "init", exc |-> "None", why |-> "none", at |-> 0,
     orig |-> obj.msg]

\* Responses with ack status, matching checksum and terminator.
ValidResponses ==
    { ResponseFrame(GNET_ACK, <<>>), AckFrame[SerialBytes(66051)] }

\* Timeout responses that are damaged as well.
DamagedTimeouts ==
    { BadTerminator(ResponseFrame(GNET_TIMEOUT, <<>>)),
      BadChecksum(ResponseFrame(GNET_TIMEOUT, <<1, 2>>)),
      BadTerminator(BadChecksum(ResponseFrame(GNET_TIMEOUT, <<1, 2>>))),
      <<ADAPTER_ADDR, GNET_TIMEOUT>> }

\* Messages of fewer than the 5 bytes of a response without payload.
ShortMessages ==
    { <<ADAPTER_ADDR>>, <<ADAPTER_ADDR, GNET_ACK>>,
      <<ADAPTER_ADDR, GNET_ACK, GNET_TERM>>,
      <<ADAPTER_ADDR, GNET_ACK, NUL, GNET_TERM>>,
      <<ADAPTER_ADDR, GNET_NACK, NUL, GNET_TERM>> }

\* The byte strings a GNetResponseMessage is made with.
ParseInputs ==
    ValidResponses
    \cup DamagedReads(SerialBytes(66051))
    \cup DamagedTimeouts
    \cup ShortMessages
    \cup { <<GNET_TERM>>, <<>> }

(***************************************************************************)
(* A GNetMessage in the hands of a caller: the object, the last thing done *)
(* to it, what bytes(message) gave, and what parse made of the response a  *)
(* device echoes it with (same first byte and data, ack status, matching   *)
(* checksum, terminator).                                                  *)
(***************************************************************************)
\* Nothing was asked of the message yet.
NotDone == [done |-> FALSE, exc |-> "None", bytes |-> NoneBytes]

\* GNetMessage(address, command, data) as __init__ leaves it.
Made(message) ==
    [message |-> message, last |-> "init", out |-> NotDone, echo |-> NotDone]

\* message.construct()
Construct(message) ==
    [message EXCEPT
        !.msg = Some(construct(message.address, message.command,
                               message.data))]

\* bytes(message)
Bytes(message) ==
    IF message.msg = NoneBytes \/ message.msg[1] = <<>>
    THEN [done |-> TRUE, exc |-> "AssertionError", bytes |-> NoneBytes]
    ELSE [done |-> TRUE, exc |-> "None", bytes |-> message.msg]

\* The response echoing a constructed message.
AckWrapped(msg) ==
    LET body == <<msg[1], GNET_ACK>> \o PySlice(msg, 2, -3)
    IN  body \o ToBytesBig(gsm16(body), 2) \o <<GNET_TERM>>

\* Longest data of a message of the model (the spec's payload limit).
MaxData == 250

\* Addresses, commands and data the messages are made with.
BuildAddresses == {0, ADAPTER_ADDR, 2, GNET_BROADCAST_ADDR}

\* With the commands 8 and 4 of test_GNetMessage_construct.
BuildCommands == {0, 1, 4, 8, GNET_ACK, GNET_BROADCAST_ADDR}

BuildData ==
    { <<>>, <<NUL>>, <<GNET_TERM, PPP_ESC>>, <<GNET_ACK, GNET_TIMEOUT, 3>>,
      <<97, 98>>,
      [i \in 1..MaxData |-> (i * 7) % 256] }

(***************************************************************************)
(* A byte string handed to escape, and what unescape makes of the result.  *)
(***************************************************************************)
\* The byte string x, nothing done to it yet.
Unescaped(x) ==
    [x |-> x, esc |-> [exc |-> NoExc, out |-> <<>>], escaped |-> FALSE,
     back |-> NoneBytes, swapped |-> NoneBytes]

\* Longest byte string handed to escape.
MaxLen == 5

\* The bytes of the byte strings: the terminator, the escape byte, the
\* second bytes of the escape pairs, and one other.
EscapeBytes == {GNET_TERM, PPP_ESC, PPP_ESC_ESC, PPP_ESC_TERM, ADAPTER_ADDR}

\* Every byte string of these bytes, ending in the terminator or not.
EscapeInputs == UNION { [1..n -> EscapeBytes] : n \in 0..MaxLen }

(***************************************************************************)
(* sam.py: wakeup_all and shutdown_all.  A call is recorded with the calls *)
(* it made on the transport, in order, and the exception it ended with; n  *)
(* is the number of sends that return before one raises (4: none raises).  *)
(***************************************************************************)
\* const.CID_WAKEUP
CID_WAKEUP == 58

\* At most this many wakeup_all and shutdown_all calls in one session.
MaxGroupCalls == 2

\* The calls of a loop that hands the message of each data to fn, times
\* times each, up to and including the one that raises.
BroadcastLoop(op, datas, fn, times, n) ==
    LET all == [i \in 1..(times * Len(datas)) |->
                   [fn |-> fn,
                    msg |-> GNetMessage(GNET_BROADCAST_ADDR, CID_WAKEUP,
                                        datas[((i - 1) \div times) + 1])]]
    IN  [op |-> op,
         calls |-> SubSeq(all, 1, Min2(n + 1, Len(all))),
         exc |-> IF n < Len(all) THEN Exc("HIDException", fn) ELSE NoExc]

\* wakeup_all sending each message once.
wakeup_all_Once(n) ==
    BroadcastLoop("wakeup_all", << <<3, 127>>, <<3, 1>> >>, "send", 1, n)

\* SAMGroup.wakeup_all
wakeup_all(n) ==
    BroadcastLoop("wakeup_all", << <<3, 127>>, <<3, 1>> >>, "send", 2, n)

\* SAMGroup.shutdown_all
shutdown_all(n) ==
    BroadcastLoop("shutdown_all", << <<3, 2>>, <<3, 0>> >>, "send", 2, n)

(***************************************************************************)
(* sam.py: set_volume_glm.  The message is made with address and command   *)
(* only, given its data, constructed again and handed to send; raises says *)
(* whether that send raises.                                               *)
(***************************************************************************)
\* const.CID_VOLUME_GLM
CID_VOLUME_GLM == 31

\* The volumes given to set_volume_glm, in tenths of a dB: the three of
\* test_SAMGroup_set_volume_glm, the lowest the volume option accepts, and
\* values around 0 dB, the positive ones beyond 24 bits.
Volumes == {0, -45, -200, -1300, -1, 1, 60}

\* util.vol_sint24_from_dB: int(10 ** (vol_dB / 20.0) * (2 ** 23 - 1)), the
\* product cut off towards zero.
vol_sint24_from_dB(dB10) ==
    CASE dB10 = 0 -> 8388607
      [] dB10 = -1 -> 8292583
      [] dB10 = -45 -> 4996775
      [] dB10 = -200 -> 838860
      [] dB10 = -1300 -> 2
      [] dB10 = 1 -> 8485742
      [] dB10 = 60 -> 16737471

\* GNetMessage.set_sint24_data: the data field alone is set, to the 3
\* bytes of the two's complement of sint24; msg keeps the bytes it had.
set_sint24_data(m, sint24) ==
    IF sint24 < -8388608 \/ sint24 > 8388607
    THEN [exc |-> Exc("OverflowError", "set_sint24_data"), obj |-> m]
    ELSE [exc |-> NoExc,
          obj |-> [m EXCEPT !.data =
                      ToBytesBig(IF sint24 < 0 THEN sint24 + 16777216
                                 ELSE sint24, 3)]]

\* message.construct() on a message: msg is built from the fields it has now.
Constructed(m) ==
    [m EXCEPT !.msg = Some(construct(m.address, m.command, m.data))]

\* set_volume_glm handing over the message without constructing it again.
set_volume_glm_NoConstruct(dB10, raises) ==
    LET s == set_sint24_data(
                 GNetMessage(GNET_BROADCAST_ADDR, CID_VOLUME_GLM, <<>>),
                 vol_sint24_from_dB(dB10))
    IN  [op |-> "set_volume_glm",
         arg |-> dB10,
         calls |-> IF s.exc # NoExc THEN <<>>
                   ELSE <<[fn |-> "send", msg |-> s.obj]>>,
         exc |-> IF s.exc # NoExc THEN s.exc
                 ELSE IF raises THEN Exc("HIDException", "send")
                 ELSE NoExc]

\* SAMGroup.set_volume_glm
set_volume_glm(dB10, raises) ==
    LET s == set_sint24_data(
                 GNetMessage(GNET_BROADCAST_ADDR, CID_VOLUME_GLM, <<>>),
                 vol_sint24_from_dB(dB10))
    IN  [op |-> "set_volume_glm",
         arg |-> dB10,
         calls |-> IF s.exc # NoExc THEN <<>>
                   ELSE <<[fn |-> "send", msg |-> Constructed(s.obj)]>>,
         exc |-> IF s.exc # NoExc THEN s.exc
                 ELSE IF raises THEN Exc("HIDException", "send")
                 ELSE NoExc]

\* What the model leaves alone while a GNetResponseMessage is parsed.
nonGnrmVars == <<sgVars, usb, gmsg, ppp, bus, mon, hid, cmd>>

\* What the model leaves alone while a GNetMessage is made and used.
nonFrameVars == <<sgVars, usb, gnrm, ppp, bus, mon, hid, cmd>>

\* What the model leaves alone while a byte string is escaped.
nonPppVars == <<sgVars, usb, gnrm, gmsg, bus, mon, hid, cmd>>

\* What wakeup_all and shutdown_all leave alone.
nonBusVars == <<sgVars, usb, gnrm, gmsg, ppp, mon, hid, cmd>>

\* What the calls of a device's methods leave alone.
nonMonVars == <<sgVars, usb, gnrm, gmsg, ppp, bus, hid, cmd>>

(***************************************************************************)
(* A device in the hands of a caller: its class, address and poll_fields,  *)
(* and the last call made on it: the method, its arguments, poll_fields    *)
(* before the call, what send_receive answered, the exception raised, the  *)
(* value returned and the messages handed to send_receive.                 *)
(***************************************************************************)
\* No answer of the transport.
NoOut == [exc |-> NoExc, response |-> NoneBytes]

\* BaseDevice.__init__
NewDevice(kind, address) ==
    [kind |-> kind, address |-> address, poll_fields |-> EmptyDict,
     op |-> "init", args |-> <<>>, before |-> EmptyDict, out |-> NoOut,
     exc |-> NoExc, ret |-> <<>>, msgs |-> <<>>]

\* The device after a call that left the outcome o.
Called(device, op, args, out, o) ==
    [device EXCEPT !.op = op, !.args = args, !.before = device.poll_fields,
                   !.out = out, !.poll_fields = o.poll_fields,
                   !.exc = o.exc, !.ret = o.ret, !.msgs = o.msgs]

\* A setter: the exception of send_receive is the setter's, nothing is
\* returned and poll_fields is left alone.
Sending(device, r, out) ==
    Outcome(IF r.exc # NoExc THEN r.exc ELSE out.exc, <<>>,
            device.poll_fields, r.msgs)

\* No device was made.
NoDevice == NewDevice("None", NoneInt)

\* What send_receive answers a setter with: an empty ack or a timeout.
SetterOuts ==
    { receive(ResponseFrame(GNET_ACK, <<>>)),
      receive(ResponseFrame(GNET_TIMEOUT, <<>>)) }

\* The led_color arguments.
ColorArgs ==
    {NoColor} \cup { IntColor(c) : c \in LedCodes }
    \cup { NamedColor(n, c) : n \in LedNames, c \in LedCodes }

\* What the model leaves alone while calls run on the session.
nonHidVars == <<sgVars, usb, gnrm, gmsg, ppp, bus, mon, cmd>>

(***************************************************************************)
(* A session on one hid handle as its single thread runs it: the call      *)
(* stack (the command, the discover_monitors generator while it runs, the  *)
(* transport call in progress), where the generator stands, and the trace  *)
(* of the handle: every write and read, and the end of every transport     *)
(* call, with the number of the call they belong to.                       *)
(***************************************************************************)
\* At most this many transport calls in one session.
MaxSessionOps == 3

\* send_receive doing the receive only.
send_receive_steps_ReceiveOnly == <<"read">>

\* BaseTransport.send_receive: self.send(message); return self.receive()
send_receive_steps == <<"write", "read">>

\* USBTransport.send: one write.
send_steps == <<"write">>

\* A frame of the call stack: the function, and for a transport call its
\* number, the steps it has left and the packets it has read.
Frame(fn, id, todo) == [fn |-> fn, id |-> id, todo |-> todo, nread |-> 0]

\* The command that owns the session.
CliFrame == Frame("cli", 0, <<>>)

\* The body of discover_monitors, running.
GenFrame == Frame("discover_monitors", 0, <<>>)

\* The callers of send_receive, and the callers of send alone.
ReceivingCalls == {"race", "assign_address", "query"}

SendingCalls == {"broadcast"}

\* An entry of the trace.
HidEvent(ev, fr, outcome) ==
    [ev |-> ev, id |-> fr.id, fn |-> fr.fn, outcome |-> outcome]

\* No session.
NoSession == [stack |-> <<>>, log |-> <<>>, genpc |-> "none", nops |-> 0]

\* The function on top of the stack.
Top(h) == IF h.stack = <<>> THEN Frame("none", 0, <<>>)
          ELSE h.stack[Len(h.stack)]

\* The stack without its top frame.
Pop(h) == SubSeq(h.stack, 1, Len(h.stack) - 1)

\* A transport call is entered from the running function.
Enter(h, fn, todo) ==
    [h EXCEPT !.stack = Append(@, Frame(fn, h.nops + 1, todo)),
              !.nops = @ + 1]

\* The transport call on top ends with outcome ("ok", "timeout": a
\* GNetTimeoutException, "error": any other exception) and the function
\* that called it goes on: discover_monitors returns on the timeout of a
\* race and lets every other exception through, the command catches the
\* timeout of a query and ends on every other exception.
Complete(h, outcome) ==
    LET fr == Top(h)
        h1 == [h EXCEPT !.log = Append(@, HidEvent("end", fr, outcome)),
                        !.stack = Pop(h)]
    IN  IF fr.fn = "race"
        THEN IF outcome = "ok" THEN [h1 EXCEPT !.genpc = "assign"]
             ELSE IF outcome = "timeout"
             THEN [h1 EXCEPT !.genpc = "done", !.stack = Pop(h1)]
             ELSE [h1 EXCEPT !.genpc = "done", !.stack = <<>>]
        ELSE IF fr.fn = "assign_address"
        THEN IF outcome = "ok" THEN [h1 EXCEPT !.genpc = "yield"]
             ELSE [h1 EXCEPT !.genpc = "done", !.stack = <<>>]
        ELSE IF outcome = "error" THEN [h1 EXCEPT !.stack = <<>>]
             ELSE h1

\* What the poll command leaves alone.
nonCmdVars == <<sgVars, usb, gnrm, gmsg, ppp, bus, mon, hid>>

(***************************************************************************)
(* cli.py: the poll command.  Where it stands (pc), the rounds it has left *)
(* (count), the round and the place in sg.devices.values() it is at, the   *)
(* number of devices registered, the polls it made, each with its round,   *)
(* its place, the number of devices and rounds left at that time and the   *)
(* exception monitor.poll() raised, and why the command was aborted.       *)
(***************************************************************************)
\* --count is at most this.
MaxCount == 2

\* At most this many devices are registered (the adapter is always one).
MaxPollDevices == 3

\* except catching every GNetException.
caught_GNetException(exc) ==
    exc.type \in {"GNetTimeoutException", "GNetException"}

\* except GNetTimeoutException
caught(exc) == exc.type = "GNetTimeoutException"

\* No command was started.
NoCommand ==
    [pc |-> "none", count |-> 0, interval |-> FALSE, round |-> 0, pos |-> 0,
     ndev |-> 0, polled |-> <<>>, why |-> ""]

\* The command ends with an exception raised by what.
Aborted(c, what) == [c EXCEPT !.pc = "aborted", !.why = what]

\* `while continuous or count > 0: count -= 1`, then the for loop from its
\* first device.
NextRound(c) ==
    IF c.count > 0
    THEN [c EXCEPT !.pc = "polling", !.count = @ - 1, !.round = @ + 1,
                   !.pos = 1]
    ELSE [c EXCEPT !.pc = "done"]

\* The end of the for loop: `if interval and (continuous or count > 0):
\* discover_monitors()`, which raises (found = "error"), finds a new monitor
\* or finds none; then the next round.
EndRound(c, found) ==
    IF c.interval /\ c.count > 0
    THEN IF found = "error" THEN Aborted(c, "discover")
         ELSE IF found = "new" /\ c.ndev < MaxPollDevices
         THEN NextRound([c EXCEPT !.ndev = @ + 1])
         ELSE NextRound(c)
    ELSE NextRound(c)

\* monitor.poll() of the device at place pos, the transport answering with
\* out: the adapter is the first device, monitors follow.
poll_of(pos, out) ==
    IF pos = 1 THEN USBAdapter_poll(ADAPTER_ADDR, EmptyDict, out)
    ELSE SAMMonitor_poll(pos, EmptyDict, out)

\* One pass of the body of the for loop, and the end of the loop after the
\* last device.
PollPass(c, out, found) ==
    LET exc == poll_of(c.pos, out).exc
        c1 == [c EXCEPT !.polled =
                   Append(@, [round |-> c.round, idx |-> c.pos,
                              ndev |-> c.ndev, left |-> c.count,
                              exc |-> exc.type])]
    IN  IF exc # NoExc /\ ~caught(exc) THEN Aborted(c1, "poll")
        ELSE IF c.pos < c.ndev THEN [c1 EXCEPT !.pos = @ + 1]
        ELSE EndRound(c1, found)

\* SAMGroup.__init__
InitGroup ==
    /\ devices = <<>>
    /\ gen = NoGen
    /\ calls = <<>>
    /\ sent = <<>>
    /\ yielded = <<>>
    /\ nRaced = 0

\* No transport call, no response, no message and no byte string in hand.
NoUsb == usb = NoCall

NoGnrm == gnrm = Held(NoResponse)

NoFrame == gmsg = Made(NoMessage)

NoPpp == ppp = Unescaped(<<>>)

NoMon == mon = NoDevice

NoHid == hid = NoSession

NoCmd == cmd = NoCommand

NoBus == bus = <<>>

\* A SAMGroup on a USBTransport, nothing called yet.
Init ==
    /\ InitGroup
    /\ NoBus
    /\ NoHid
    /\ NoCmd
    /\ NoMon
    /\ NoUsb
    /\ NoGnrm
    /\ NoFrame
    /\ NoPpp

\* USBAdapter(glm): BaseDevice.__init__ registers address 1.
NewUSBAdapter ==
    /\ ADAPTER_ADDR \notin Keys(devices)
    /\ devices' = DictSet(devices, Device(ADAPTER_ADDR, NoneInt))
    /\ UNCHANGED <<gen, calls, sent, yielded, nRaced, nonGroupVars>>

\* SAMMonitor(address, glm) constructed by hand, before any discovery.
NewSAMMonitor ==
    /\ gen.pc = "none"
    /\ \E a \in PresetAddrs \ Keys(devices) :
          devices' = DictSet(devices, Device(a, NoneInt))
    /\ UNCHANGED <<gen, calls, sent, yielded, nRaced, nonGroupVars>>

\* discover_monitors starting from an empty mapping.
StartDiscover_Reset ==
    /\ \E all \in BOOLEAN : gen' = [NoGen EXCEPT !.pc = "created", !.all = all]
    /\ devices' = <<>>
    /\ calls' = <<>>
    /\ sent' = <<>>
    /\ yielded' = <<>>
    /\ UNCHANGED <<nRaced, nonGroupVars>>

\* sg.discover_monitors(all): creates the generator; nothing runs yet.  A
\* generator left suspended is dropped.
StartDiscover ==
    /\ \E all \in BOOLEAN : gen' = [NoGen EXCEPT !.pc = "created", !.all = all]
    /\ calls' = <<>>
    /\ sent' = <<>>
    /\ yielded' = <<>>
    /\ UNCHANGED <<devices, nRaced, nonGroupVars>>

\* A call of self.race(): what _read returned to it, the serial it returned
\* and the exception it raised.
RaceCall(raw, r) ==
    [op |-> "race", serial |-> r.serial, address |-> NoneInt,
     raw |-> raw, exc |-> r.exc]

\* A call of self.assign_address(serial, address): its arguments, what _read
\* returned to it and the exception it raised.
AssignCall(serial, address, raw, exc) ==
    [op |-> "assign_address", serial |-> serial, address |-> address,
     raw |-> raw, exc |-> exc]

\* The generator ends: it returns (exc = NoExc) or raises exc.
GenEnds(exc, newCalls, newSent) ==
    /\ gen' = [gen EXCEPT !.pc = IF exc = NoExc THEN "done" ELSE "raised",
                          !.exc = exc]
    /\ calls' = newCalls
    /\ sent' = newSent
    /\ UNCHANGED <<devices, yielded, nRaced>>

\* self.assign_address(serialno, addr), then the yield of the new monitor.
AssignPass(addr, serialno, calls1, sent1) ==
    \E araw \in AssignReads(addr) :
       LET a == assign_address(addr, ReceiveOf[araw])
           calls2 == Append(calls1, AssignCall(serialno, addr, araw, a))
           sent2 == Append(sent1, [by |-> "assign_address",
                                   msg |-> assign_msg(serialno, addr)])
       IN  /\ calls' = calls2
           /\ sent' = sent2
           /\ nRaced' = nRaced + 1
           /\ IF a # NoExc
              THEN /\ gen' = [gen EXCEPT !.pc = "raised", !.exc = a]
                   /\ UNCHANGED <<devices, yielded>>
              ELSE /\ gen' = [gen EXCEPT !.pc = "yielded", !.addr = addr]
                   /\ devices' = DictSet(devices, Device(addr, serialno))
                   /\ yielded' = Append(yielded,
                                        [dev |-> Device(addr, serialno),
                                         new |-> TRUE])

\* The loop with `except GNetException: return`.
LoopPass_CatchAll(addr) ==
    IF addr >= ADDR_LIMIT
    THEN GenEnds(NoExc, calls, sent)
    ELSE \E rraw \in RaceReads(nRaced) :
         LET r == race(ReceiveOf[rraw])
             calls1 == Append(calls, RaceCall(rraw, r))
             sent1 == Append(sent, [by |-> "race", msg |-> race_msg])
         IN  IF r.exc.type \in {"GNetTimeoutException", "GNetException"}
             THEN GenEnds(NoExc, calls1, sent1)
             ELSE IF r.exc # NoExc
             THEN GenEnds(r.exc, calls1, sent1)
             ELSE AssignPass(addr, r.serial, calls1, sent1)

\* One pass of `for addr in range(first_avail, 128)` from addr up to the
\* yield, the return or the exception.
LoopPass(addr) ==
    IF addr >= ADDR_LIMIT
    THEN GenEnds(NoExc, calls, sent)
    ELSE \E rraw \in RaceReads(nRaced) :
         LET r == race(ReceiveOf[rraw])
             calls1 == Append(calls, RaceCall(rraw, r))
             sent1 == Append(sent, [by |-> "race", msg |-> race_msg])
         IN  IF r.exc.type = "GNetTimeoutException"
             THEN GenEnds(NoExc, calls1, sent1)
             ELSE IF r.exc # NoExc
             THEN GenEnds(r.exc, calls1, sent1)
             ELSE AssignPass(addr, r.serial, calls1, sent1)

\* first_avail_addr with default=2.
first_avail_addr_Default2 ==
    (IF devices = <<>> THEN 2 ELSE SetMax(Keys(devices))) + 1

\* first_avail_addr = max(self.devices.keys(), default=1) + 1
first_avail_addr == (IF devices = <<>> THEN 1 ELSE SetMax(Keys(devices))) + 1

\* The loop is entered: the assertion, then the first pass.
EnterLoop ==
    IF first_avail_addr > 1
    THEN LoopPass(first_avail_addr)
    ELSE GenEnds(Exc("AssertionError", "discover_monitors"), calls, sent)

\* next() on a generator made with all=False that has not run yet.
ResumeFirst ==
    /\ gen.pc = "created"
    /\ ~gen.all
    /\ EnterLoop
    /\ UNCHANGED nonGroupVars

\* next() while `yield from self.devices.values()` is running (or about to):
\* the dict iterator raises if the dict changed size, yields the next known
\* device, or is exhausted and the loop is entered.
ResumeKnown ==
    /\ \/ gen.pc = "created" /\ gen.all
       \/ gen.pc = "known"
    /\ LET used == IF gen.pc = "created" THEN Len(devices) ELSE gen.used
       IN  IF Len(devices) # used
           THEN GenEnds(Exc("RuntimeError", "discover_monitors"), calls, sent)
           ELSE IF gen.pos < Len(devices)
           THEN /\ gen' = [gen EXCEPT !.pc = "known", !.pos = gen.pos + 1,
                                      !.used = used]
                /\ yielded' = Append(yielded, [dev |-> devices[gen.pos + 1],
                                               new |-> FALSE])
                /\ UNCHANGED <<devices, calls, sent, nRaced>>
           ELSE EnterLoop
    /\ UNCHANGED nonGroupVars

\* The loop trying the same address again.
ResumeNext_SameAddr ==
    /\ gen.pc = "yielded"
    /\ LoopPass(gen.addr)
    /\ UNCHANGED nonGroupVars

\* next() after a newly discovered monitor was yielded.
ResumeNext ==
    /\ gen.pc = "yielded"
    /\ LoopPass(gen.addr + 1)
    /\ UNCHANGED nonGroupVars

Next ==
    \/ NewUSBAdapter
    \/ NewSAMMonitor
    \/ StartDiscover
    \/ ResumeFirst
    \/ ResumeKnown
    \/ ResumeNext

Spec == Init /\ [][Next]_vars

(***************************************************************************)
(* USBTransport in use: calls of send, receive and send_receive, one at a  *)
(* time, and the reads of the handle that a receive blocks on.             *)
(***************************************************************************)
\* No call is in progress.
Callable == usb.pc \in {"idle", "returned", "raised"}

\* transport.send(message)
Send ==
    /\ Callable
    /\ \E message \in UsbMessages, wexc \in WriteOutcomes :
          LET u == USBTransport_send(NewCall("send", message), message, wexc)
          IN  usb' = IF u.pc = "raised" THEN u ELSE Return(u, NoResponse)
    /\ UNCHANGED nonUsbVars

\* transport.receive(parse), up to its first read of the handle.
Receive ==
    /\ Callable
    /\ \E p \in BOOLEAN :
          usb' = USBTransport_receive(NewCall("receive", NoMessage), p)
    /\ UNCHANGED nonUsbVars

\* transport.send_receive(message), up to its first read of the handle.
SendReceive ==
    /\ Callable
    /\ \E message \in UsbMessages, wexc \in WriteOutcomes :
          usb' = send_receive(message, wexc)
    /\ UNCHANGED nonUsbVars

\* adapter.read(64) returns or raises, and _read runs on to its next read or
\* to the end of the call.
ReadPacket ==
    /\ usb.pc = "read"
    /\ \E r \in ReadOutcomes : usb' = read_packet(usb, r)
    /\ UNCHANGED nonUsbVars

NextUsb ==
    \/ Send
    \/ Receive
    \/ SendReceive
    \/ ReadPacket

SpecUsb == Init /\ [][NextUsb]_vars

(***************************************************************************)
(* GNetResponseMessage in use: made with or without a message, one byte of *)
(* the message overwritten, parsed any number of times.                    *)
(***************************************************************************)
\* GNetResponseMessage(msg), GNetResponseMessage()
InitParse ==
    /\ InitGroup
    /\ NoBus
    /\ NoHid
    /\ NoCmd
    /\ NoMon
    /\ NoUsb
    /\ NoFrame
    /\ NoPpp
    /\ \/ \E msg \in ParseInputs : gnrm = Held(NewResponse(msg))
       \/ gnrm = Held(NoResponse)

\* gnrm.parse()
Parse ==
    /\ LET p == parse(gnrm.obj)
       IN  gnrm' = [gnrm EXCEPT !.obj = p.obj, !.last = "parse",
                                !.exc = p.exc, !.why = p.why]
    /\ UNCHANGED nonGnrmVars

\* gnrm.msg[i] = v on a message no byte of which was overwritten before.
SetByte ==
    /\ gnrm.at = 0
    /\ gnrm.obj.msg # NoneBytes
    /\ \E i \in 1..Len(gnrm.obj.msg[1]) :
          \E v \in (0..BYTE_MAX) \ {gnrm.obj.msg[1][i]} :
             gnrm' = [gnrm EXCEPT !.obj.msg = Some([@[1] EXCEPT ![i] = v]),
                                  !.last = "setitem", !.at = i]
    /\ UNCHANGED nonGnrmVars

NextParse ==
    \/ Parse
    \/ SetByte

SpecParse == InitParse /\ [][NextParse]_vars

(***************************************************************************)
(* GNetMessage in use: made from an address, a command and data,           *)
(* constructed by hand, turned into bytes, echoed by a device.             *)
(***************************************************************************)
\* GNetMessage(address, command, data)
InitBuild ==
    /\ InitGroup
    /\ NoBus
    /\ NoHid
    /\ NoCmd
    /\ NoMon
    /\ NoUsb
    /\ NoGnrm
    /\ NoPpp
    /\ \E address \in BuildAddresses, command \in BuildCommands,
          data \in BuildData :
          gmsg = Made(GNetMessage(address, command, data))

\* message.construct()
ConstructMessage ==
    /\ gmsg.last = "init"
    /\ gmsg' = [Made(Construct(gmsg.message)) EXCEPT !.last = "construct"]
    /\ UNCHANGED nonFrameVars

\* bytes(message)
BytesOfMessage ==
    /\ gmsg' = [gmsg EXCEPT !.out = Bytes(gmsg.message)]
    /\ UNCHANGED nonFrameVars

\* GNetResponseMessage(echo).parse() for the echo of the constructed message.
ParseEcho ==
    /\ gmsg.message.msg # NoneBytes
    /\ LET p == parse(NewResponse(AckWrapped(gmsg.message.msg[1])))
       IN  gmsg' = [gmsg EXCEPT !.echo = [done |-> TRUE, exc |-> p.exc,
                                           bytes |-> p.obj.response]]
    /\ UNCHANGED nonFrameVars

NextBuild ==
    \/ ConstructMessage
    \/ BytesOfMessage
    \/ ParseEcho

SpecBuild == InitBuild /\ [][NextBuild]_vars

(***************************************************************************)
(* escape and unescape in use: a byte string is escaped, and the result is *)
(* unescaped, by unescape and with its replacements in the other order.    *)
(***************************************************************************)
InitStuffing ==
    /\ InitGroup
    /\ NoBus
    /\ NoHid
    /\ NoCmd
    /\ NoMon
    /\ NoUsb
    /\ NoGnrm
    /\ NoFrame
    /\ \E x \in EscapeInputs : ppp = Unescaped(x)

\* USBTransport.escape(x)
Escape ==
    /\ ~ppp.escaped
    /\ ppp' = [ppp EXCEPT !.esc = escape(ppp.x), !.escaped = TRUE]
    /\ UNCHANGED nonPppVars

\* USBTransport.unescape on what escape returned.
Unescape ==
    /\ ppp.escaped
    /\ ppp.esc.exc = NoExc
    /\ ppp' = [ppp EXCEPT !.back = Some(unescape(ppp.esc.out))]
    /\ UNCHANGED nonPppVars

\* The replacements in the other order on what escape returned.
UnescapeOtherOrder ==
    /\ ppp.escaped
    /\ ppp.esc.exc = NoExc
    /\ ppp' = [ppp EXCEPT !.swapped = Some(unescape_other_order(ppp.esc.out))]
    /\ UNCHANGED nonPppVars

NextStuffing ==
    \/ Escape
    \/ Unescape
    \/ UnescapeOtherOrder

SpecStuffing == InitStuffing /\ [][NextStuffing]_vars

(***************************************************************************)
(* SAMGroup.wakeup_all, shutdown_all and set_volume_glm in use, on a       *)
(* transport whose send records the message and may raise.                 *)
(***************************************************************************)
\* samgroup.wakeup_all()
WakeupAll ==
    /\ Len(bus) < MaxGroupCalls
    /\ \E n \in 0..4 : bus' = Append(bus, wakeup_all(n))
    /\ UNCHANGED nonBusVars

\* samgroup.shutdown_all()
ShutdownAll ==
    /\ Len(bus) < MaxGroupCalls
    /\ \E n \in 0..4 : bus' = Append(bus, shutdown_all(n))
    /\ UNCHANGED nonBusVars

\* samgroup.set_volume_glm(dB)
SetVolumeGlm ==
    /\ Len(bus) < MaxGroupCalls
    /\ \E dB10 \in Volumes, raises \in BOOLEAN :
          bus' = Append(bus, set_volume_glm(dB10, raises))
    /\ UNCHANGED nonBusVars

NextBroadcast ==
    \/ WakeupAll
    \/ ShutdownAll
    \/ SetVolumeGlm

SpecBroadcast == Init /\ [][NextBroadcast]_vars

(***************************************************************************)
(* Polling: a USBAdapter or a SAMMonitor is made and polled, again and     *)
(* again; every poll is answered by the transport.                         *)
(***************************************************************************)
\* USBAdapter(glm) or SAMMonitor(address, glm)
InitPoll ==
    /\ InitGroup
    /\ NoBus
    /\ NoHid
    /\ NoCmd
    /\ NoUsb
    /\ NoGnrm
    /\ NoFrame
    /\ NoPpp
    /\ \/ mon = NewDevice("USBAdapter", ADAPTER_ADDR)
       \/ \E address \in MonitorAddrs : mon = NewDevice("SAMMonitor", address)

\* usb_adapter.poll()
PollAdapter ==
    /\ mon.kind = "USBAdapter"
    /\ \E out \in PollOuts :
          mon' = Called(mon, "poll", <<>>, out,
                        USBAdapter_poll(mon.address, mon.poll_fields, out))
    /\ UNCHANGED nonMonVars

\* monitor.poll()
PollMonitor ==
    /\ mon.kind = "SAMMonitor"
    /\ \E out \in PollOuts :
          mon' = Called(mon, "poll", <<>>, out,
                        SAMMonitor_poll(mon.address, mon.poll_fields, out))
    /\ UNCHANGED nonMonVars

NextPoll ==
    \/ PollAdapter
    \/ PollMonitor

SpecPoll == InitPoll /\ [][NextPoll]_vars

(***************************************************************************)
(* Setting: a SAMMonitor is made and one of its bypass, mute and           *)
(* set_digisum_gain methods is called on it, with every combination of     *)
(* arguments.                                                              *)
(***************************************************************************)
\* SAMMonitor(address, glm)
InitSetters ==
    /\ InitGroup
    /\ NoBus
    /\ NoHid
    /\ NoCmd
    /\ NoUsb
    /\ NoGnrm
    /\ NoFrame
    /\ NoPpp
    /\ \E address \in MonitorAddrs : mon = NewDevice("SAMMonitor", address)

\* monitor.bypass(value, mute, led_color, led_pulsing, invert_led_enable)
Bypass ==
    /\ mon.op = "init"
    /\ \E value \in 0..BYTE_MAX, mute \in OptBool, led_color \in ColorArgs,
          led_pulsing \in OptBool, invert_led_enable \in OptBool,
          out \in SetterOuts :
          mon' = Called(mon, "bypass",
                        [value |-> value, mute |-> mute,
                         led_color |-> led_color,
                         led_pulsing |-> led_pulsing,
                         invert_led_enable |-> invert_led_enable],
                        out,
                        Sending(mon,
                                bypass(mon.address, value, mute, led_color,
                                       led_pulsing, invert_led_enable),
                                out))
    /\ UNCHANGED nonMonVars

\* monitor.mute(mute)
Mute ==
    /\ mon.op = "init"
    /\ \E mute \in {0, 1}, out \in SetterOuts :
          mon' = Called(mon, "mute", [mute |-> mute], out,
                        Sending(mon, mute_bypass(mon.address, mute), out))
    /\ UNCHANGED nonMonVars

\* monitor.set_digisum_gain(gain)
SetDigisumGain ==
    /\ mon.op = "init"
    /\ \E gain \in Gains, out \in SetterOuts :
          mon' = Called(mon, "set_digisum_gain", [gain |-> gain], out,
                        Sending(mon, set_digisum_gain(mon.address, gain), out))
    /\ UNCHANGED nonMonVars

NextSetters ==
    \/ Bypass
    \/ Mute
    \/ SetDigisumGain

SpecSetters == InitSetters /\ [][NextSetters]_vars

(***************************************************************************)
(* A session: the command creates discover_monitors generators, resumes    *)
(* them, and calls device methods and broadcasts of its own, also while a  *)
(* generator is suspended at its yield; every transport call writes to and *)
(* reads from the handle step by step.                                     *)
(***************************************************************************)
\* main(): the SAMGroup on its transport, the command running.
InitSession ==
    /\ InitGroup
    /\ NoBus
    /\ NoCmd
    /\ NoMon
    /\ NoUsb
    /\ NoGnrm
    /\ NoFrame
    /\ NoPpp
    /\ hid = [NoSession EXCEPT !.stack = <<CliFrame>>]

\* sg.discover_monitors(...): the generator is created, nothing runs yet; a
\* generator left suspended is dropped.
SessionDiscover ==
    /\ Top(hid).fn = "cli"
    /\ hid.genpc \in {"none", "suspended", "done"}
    /\ hid.nops < MaxSessionOps
    /\ hid' = [hid EXCEPT !.genpc = "created"]
    /\ UNCHANGED nonHidVars

\* next() on the generator: its body runs on top of the command, up to the
\* yield of a known device, to the next race, or to its end when no address
\* is left.
SessionNext ==
    /\ Top(hid).fn = "cli"
    /\ hid.genpc \in {"created", "suspended"}
    /\ \E to \in {"race", "yield", "done"} :
          hid' = [hid EXCEPT !.genpc = to,
                             !.stack = IF to = "done" THEN @
                                       ELSE Append(@, GenFrame)]
    /\ UNCHANGED nonHidVars

\* self.race() in the generator: send_receive is entered.
SessionRace ==
    /\ Top(hid).fn = "discover_monitors"
    /\ hid.genpc = "race"
    /\ hid.nops < MaxSessionOps
    /\ hid' = Enter(hid, "race", send_receive_steps)
    /\ UNCHANGED nonHidVars

\* self.assign_address(serialno, addr) in the generator.
SessionAssign ==
    /\ Top(hid).fn = "discover_monitors"
    /\ hid.genpc = "assign"
    /\ hid.nops < MaxSessionOps
    /\ hid' = Enter(hid, "assign_address", send_receive_steps)
    /\ UNCHANGED nonHidVars

\* yield: the generator is suspended and the command runs again.
SessionYield ==
    /\ Top(hid).fn = "discover_monitors"
    /\ hid.genpc = "yield"
    /\ hid' = [hid EXCEPT !.genpc = "suspended", !.stack = Pop(hid)]
    /\ UNCHANGED nonHidVars

\* A device method called by the command (query_hardware, poll, ...):
\* send_receive is entered.
SessionQuery ==
    /\ Top(hid).fn = "cli"
    /\ hid.nops < MaxSessionOps
    /\ hid' = Enter(hid, "query", send_receive_steps)
    /\ UNCHANGED nonHidVars

\* A broadcast called by the command (set_volume_glm, stay_online, one send
\* of wakeup_all): send is entered.
SessionBroadcast ==
    /\ Top(hid).fn = "cli"
    /\ hid.nops < MaxSessionOps
    /\ hid' = Enter(hid, "broadcast", send_steps)
    /\ UNCHANGED nonHidVars

\* self.adapter.write(...) of the transport call in progress; it raises, or
\* the call goes on to its next step or returns.
SessionWrite ==
    /\ Top(hid).todo # <<>>
    /\ Head(Top(hid).todo) = "write"
    /\ LET fr == Top(hid)
           h1 == [hid EXCEPT !.log = Append(@, HidEvent("write", fr, "")),
                             !.stack[Len(hid.stack)].todo = Tail(fr.todo)]
       IN  \E wexc \in WriteOutcomes :
              hid' = IF wexc # NoExc THEN Complete(h1, "error")
                     ELSE IF Tail(fr.todo) = <<>> THEN Complete(h1, "ok")
                     ELSE h1
    /\ UNCHANGED nonHidVars

\* self.adapter.read(64) of the transport call in progress: the read
\* raises, the packet is malformed, the message is not complete (one more
\* read, unless MAX_SEGMENTS packets were read), or it is and parse returns
\* or raises.
SessionRead ==
    /\ Top(hid).todo # <<>>
    /\ Head(Top(hid).todo) = "read"
    /\ LET fr == Top(hid)
           h1 == [hid EXCEPT !.log = Append(@, HidEvent("read", fr, "")),
                             !.stack[Len(hid.stack)].nread = fr.nread + 1]
       IN  \E got \in {"more", "ok", "timeout", "error"} :
              hid' = IF got = "more"
                     THEN IF fr.nread + 2 > MAX_SEGMENTS
                          THEN Complete(h1, "error")
                          ELSE h1
                     ELSE Complete(h1, got)
    /\ UNCHANGED nonHidVars

NextSession ==
    \/ SessionDiscover
    \/ SessionNext
    \/ SessionRace
    \/ SessionAssign
    \/ SessionYield
    \/ SessionQuery
    \/ SessionBroadcast
    \/ SessionWrite
    \/ SessionRead

SpecSession == InitSession /\ [][NextSession]_vars

(***************************************************************************)
(* The poll command of the command line.                                   *)
(***************************************************************************)
InitCliPoll ==
    /\ InitGroup
    /\ NoBus
    /\ NoHid
    /\ NoMon
    /\ NoUsb
    /\ NoGnrm
    /\ NoFrame
    /\ NoPpp
    /\ cmd = NoCommand

\* poll(count, continuous=False, interval): discover_monitors(), which may
\* raise, then the first round.
StartPoll ==
    /\ cmd.pc = "none"
    /\ \E count \in 0..MaxCount, interval \in BOOLEAN,
          ndev \in 1..MaxPollDevices, found \in {"ok", "error"} :
          LET c == [NoCommand EXCEPT !.count = count,
                                     !.interval = interval, !.ndev = ndev]
          IN  cmd' = IF found = "error" THEN Aborted(c, "discover")
                     ELSE NextRound(c)
    /\ UNCHANGED nonCmdVars

\* The body of the for loop for the next device.
PollDevice ==
    /\ cmd.pc = "polling"
    /\ \E out \in PollOuts, found \in {"none", "new", "error"} :
          cmd' = PollPass(cmd, out, found)
    /\ UNCHANGED nonCmdVars

NextCliPoll ==
    \/ StartPoll
    \/ PollDevice

SpecCliPoll == InitCliPoll /\ [][NextCliPoll]_vars

(***************************************************************************)
(* What the properties read off the state.                                 *)
(***************************************************************************)
RaceCalls == SelectSeq(calls, LAMBDA c : c.op = "race")

AssignCalls == SelectSeq(calls, LAMBDA c : c.op = "assign_address")

\* The newly discovered devices the generator in use has yielded.
NewYielded == SelectSeq(yielded, LAMBDA y : y.new)

NewAddrs == { NewYielded[i].dev.address : i \in 1..Len(NewYielded) }

\* The addresses registered by anything but the generator in use.
KeysBefore == Keys(devices) \ NewAddrs

\* A device discovered by an earlier generator is registered.
EarlierDiscovered ==
    \E i \in 1..Len(devices) :
        devices[i].serial # NoneInt /\ devices[i].address \in KeysBefore

LastCall == calls[Len(calls)]

IsTimeout(exc) == exc.type = "GNetTimeoutException"

\* The raw message carries the timeout status.
TimeoutStatus(raw) == Len(raw) >= 2 /\ raw[2] = GNET_TIMEOUT

\* The generator returned because a race timed out.
EndedByRaceTimeout ==
    /\ gen.pc = "done"
    /\ calls # <<>>
    /\ LastCall.op = "race"
    /\ IsTimeout(LastCall.exc)

\* The mapping only grows: no entry is removed, moved or changed.
DevicesKept ==
    \A i \in 1..Len(devices) : Len(devices') >= i /\ devices'[i] = devices[i]

\* The calls of the generator in use: N answered races, N assignments of
\* the addresses from..from+N-1 with the raced serials, N new devices.
Discovered(N, from) ==
    /\ Len(NewYielded) = N
    /\ Len(AssignCalls) = N
    /\ \A i \in 1..N :
          /\ AssignCalls[i].serial = RaceCalls[i].serial
          /\ AssignCalls[i].address = from + i - 1
          /\ NewYielded[i].dev = Device(from + i - 1, RaceCalls[i].serial)

(***************************************************************************)
(* C1 (as amended).  From a mapping with no bus device, N answered races   *)
(* followed by a Timeout make a fully consumed discover_monitors yield,    *)
(* after the already known devices when all=True, exactly N new devices    *)
(* with the addresses 2..N+1 in that order, and assign_address is called   *)
(* once per device, in order, with its serial and address.                 *)
(***************************************************************************)
C1_DiscoverYieldsNFromTwo ==
    (EndedByRaceTimeout /\ KeysBefore \subseteq {ADAPTER_ADDR}) =>
        /\ Discovered(Len(RaceCalls) - 1, 2)
        /\ \A i \in 1..Len(yielded) : \A j \in 1..Len(yielded) :
              (yielded[i].new /\ ~yielded[j].new) => j < i

\* C1 as stated: everything the generator yields is one of the N devices.
C1_AsStated ==
    (EndedByRaceTimeout /\ KeysBefore \subseteq {ADAPTER_ADDR}) =>
        /\ Len(yielded) = Len(RaceCalls) - 1
        /\ \A i \in 1..Len(yielded) : yielded[i].dev.address = i + 1

C1_Witness ==
    /\ EndedByRaceTimeout
    /\ KeysBefore = {ADAPTER_ADDR}
    /\ gen.all
    /\ Len(yielded) = 3
    /\ Len(NewYielded) = 2

(***************************************************************************)
(* C2.  Over all discover_monitors calls of a session, each address handed *)
(* to assign_address is max(keys of the mapping) + 1 at that time (2 for   *)
(* an empty or adapter-only mapping), above every registered address, and  *)
(* the discovered devices sit in the mapping with increasing addresses.    *)
(***************************************************************************)
C2_Step ==
    (Len(calls') > Len(calls) /\ calls'[Len(calls')].op = "assign_address") =>
        LET a == calls'[Len(calls')].address
        IN  /\ a = SetMax(Keys(devices) \cup {1}) + 1
            /\ \A k \in Keys(devices) : k < a

C2_Increasing ==
    \A i \in 1..Len(devices) : \A j \in 1..Len(devices) :
        (i < j /\ devices[i].serial # NoneInt /\ devices[j].serial # NoneInt)
            => devices[i].address < devices[j].address

C2_AddressesIncrease == [][C2_Step]_vars /\ []C2_Increasing

C2_Witness ==
    /\ gen.pc = "yielded"
    /\ EarlierDiscovered
    /\ Len(NewYielded) = 2
    /\ NewYielded[2].dev.address = 4

(***************************************************************************)
(* C3.  Every address discover_monitors hands to assign_address lies in    *)
(* 2..127: never the adapter's 1, the multicast 0xF0 or the broadcast 0xFF.*)
(***************************************************************************)
C3_AssignedInRange ==
    \A i \in 1..Len(calls) :
        calls[i].op = "assign_address" =>
            /\ calls[i].address \in 2..127
            /\ calls[i].address \notin
                   {ADAPTER_ADDR, GNET_MULTICAST_ADDR, GNET_BROADCAST_ADDR}
            /\ sent[i].msg.data[4] = calls[i].address

C3_Witness ==
    /\ AssignCalls # <<>>
    /\ AssignCalls[1].address = 127
    /\ 126 \in Keys(devices)

(***************************************************************************)
(* C4.  discover_monitors is lazy and safe to abandon: suspended after k   *)
(* new devices it has made exactly k race and k assign_address calls, the  *)
(* k devices are registered, the first address it assigns is the one after *)
(* the addresses registered before it, and no step removes or changes an   *)
(* entry of the mapping.                                                   *)
(***************************************************************************)
C4_State ==
    /\ gen.pc \in {"created", "known", "yielded"} =>
          /\ Len(RaceCalls) = Len(NewYielded)
          /\ Len(AssignCalls) = Len(NewYielded)
    /\ \A i \in 1..Len(NewYielded) :
          \E j \in 1..Len(devices) : devices[j] = NewYielded[i].dev
    /\ \A i \in 1..Len(AssignCalls) :
          AssignCalls[i].address = SetMax(KeysBefore \cup {1}) + i

C4_LazyAndSafeToAbandon == []C4_State /\ [][DevicesKept]_vars

C4_Witness ==
    /\ gen.pc = "yielded"
    /\ 2 \in KeysBefore
    /\ EarlierDiscovered
    /\ Len(NewYielded) = 1
    /\ NewYielded[1].dev.address = 3

(***************************************************************************)
(* C5.  In discover_monitors only a Timeout of race is caught (and ends    *)
(* the generator normally); every other exception of race and every        *)
(* exception of assign_address, a Timeout included, leaves the generator   *)
(* as raised, with nothing called after it; the device of a failed         *)
(* assignment is neither registered nor yielded, and the mapping keeps its *)
(* entries.                                                                *)
(***************************************************************************)
C5_State ==
    /\ \A i \in 1..Len(calls) : calls[i].exc # NoExc => i = Len(calls)
    /\ (calls # <<>> /\ LastCall.op = "race" /\ TimeoutStatus(LastCall.raw))
          => gen.pc = "done"
    /\ (calls # <<>> /\ LastCall.exc # NoExc
          /\ ~(LastCall.op = "race" /\ IsTimeout(LastCall.exc)))
          => gen.pc = "raised" /\ gen.exc = LastCall.exc
    /\ (calls # <<>> /\ LastCall.op = "assign_address"
          /\ TimeoutStatus(LastCall.raw))
          => gen.pc = "raised" /\ IsTimeout(gen.exc)
    /\ (calls # <<>> /\ LastCall.op = "assign_address" /\ LastCall.exc # NoExc)
          => /\ LastCall.address \notin Keys(devices)
             /\ LastCall.address \notin NewAddrs
             /\ Len(NewYielded) = Len(AssignCalls) - 1
    /\ gen.pc = "done" =>
          \/ calls = <<>>
          \/ LastCall.exc = NoExc
          \/ LastCall.op = "race" /\ IsTimeout(LastCall.exc)

C5_OnlyRaceTimeoutCaught == []C5_State /\ [][DevicesKept]_vars

C5_Witness ==
    /\ gen.pc = "raised"
    /\ LastCall.op = "assign_address"
    /\ IsTimeout(gen.exc)
    /\ Len(NewYielded) = 1

(***************************************************************************)
(* C6.  race: a response with the timeout status raises that Timeout; an   *)
(* acked 3-byte payload is returned as a big-endian integer; an acked      *)
(* payload of any other length raises GNetException and returns nothing.   *)
(***************************************************************************)
C6_RaceOutcomes ==
    \A i \in 1..Len(RaceCalls) :
        LET c == RaceCalls[i]
        IN  /\ TimeoutStatus(c.raw) =>
                  c.exc = Exc("GNetTimeoutException", "parse")
                  /\ c.serial = NoneInt
            /\ \A s \in Serials :
                  c.raw = AckFrame[SerialBytes(s)] =>
                      c.exc = NoExc /\ c.serial = s
            /\ \A p \in NonSerialPayloads :
                  c.raw = AckFrame[p] =>
                      c.exc = Exc("GNetException", "race")
                      /\ c.serial = NoneInt

C6_Witness ==
    /\ Len(RaceCalls) = 2
    /\ RaceCalls[1].serial = 263430
    /\ RaceCalls[2].raw = AckFrame[<<1, 2, 3, 4>>]
    /\ gen.pc = "raised"

(***************************************************************************)
(* C7 (as amended).  Every frame race sends carries the discovery command  *)
(* and no data and is addressed to the broadcast address 0xFF.             *)
(***************************************************************************)
C7_RaceToBroadcast ==
    \A i \in 1..Len(sent) :
        sent[i].by = "race" =>
            /\ sent[i].msg.address = 255
            /\ sent[i].msg.command = CID_RACE
            /\ sent[i].msg.data = <<>>
            /\ sent[i].msg.msg # NoneBytes
            /\ SubSeq(sent[i].msg.msg[1], 1, 2) = <<255, CID_RACE>>

\* C7 as stated: every frame race sends is addressed to 0xF0.
C7_AsStated ==
    \A i \in 1..Len(sent) :
        sent[i].by = "race" =>
            sent[i].msg.address = 240 /\ sent[i].msg.command = CID_RACE

C7_Witness == Len(sent) >= 3 /\ sent[3].by = "race"

(***************************************************************************)
(* C8.  assign_address(serial, address) sends one frame, to the multicast  *)
(* address, with the assignment command and the data serial (3 bytes, big  *)
(* endian) then address; it returns iff the response payload is exactly    *)
(* the byte address, and raises GNetException on any other payload.        *)
(***************************************************************************)
C8_AssignAddress ==
    /\ Len(sent) = Len(calls)
    /\ \A i \in 1..Len(calls) :
          LET c == calls[i]
              m == sent[i].msg
          IN  /\ sent[i].by = c.op
              /\ c.op = "assign_address" =>
                    /\ m.address = 240
                    /\ m.command = CID_SET_RID
                    /\ m.data = << c.serial \div 65536, (c.serial \div 256) % 256,
                                   c.serial % 256, c.address >>
                    /\ \A p \in AssignPayloads(c.address) :
                          c.raw = AckFrame[p] =>
                              /\ c.exc = NoExc <=> p = <<c.address>>
                              /\ p # <<c.address>> =>
                                    c.exc = Exc("GNetException", "assign_address")

C8_Witness ==
    /\ Len(AssignCalls) = 2
    /\ AssignCalls[1].exc = NoExc
    /\ AssignCalls[2].raw = AckFrame[<<3, 3>>]
    /\ AssignCalls[2].exc # NoExc

(***************************************************************************)
(* Claims about the USB transport.                                         *)
(***************************************************************************)
\* The entries of io of one kind.
IoOf(op) == SelectSeq(usb.io, LAMBDA e : e.op = op)

\* The send of the call failed: it raised before or in its write.
SendFailed ==
    \/ Len(IoOf("write")) = 0
    \/ IoOf("write")[1].exc # NoExc

\* C9: a send_receive makes exactly one send, at most one write of the frame
\* to the handle and at most one receive, in that order; when the send fails
\* the call raises the error of the send and neither a receive nor a read of
\* the handle happens; when the send succeeds there is exactly one receive,
\* whatever it ends with, and every read of the handle belongs to it.
C9_SendReceiveOnce ==
    usb.op = "send_receive" =>
        /\ Len(IoOf("send")) = 1
        /\ usb.io[1].op = "send"
        /\ Len(IoOf("write")) <= 1
        /\ \A i \in 1..Len(usb.io) :
              /\ usb.io[i].op = "write" => i = 2
              /\ usb.io[i].op = "receive" => i = 3
              /\ usb.io[i].op = "read" => i > 3
        /\ SendFailed =>
              /\ usb.pc = "raised"
              /\ usb.exc.origin \in {"send", "escape", "write"}
              /\ Len(IoOf("receive")) = 0
              /\ Len(IoOf("read")) = 0
        /\ ~SendFailed =>
              /\ Len(IoOf("receive")) = 1
              /\ usb.io[2].data =
                    <<128 + Len(escape(usb.message.msg[1]).out)>>
                        \o escape(usb.message.msg[1]).out
              /\ usb.pc = "raised" =>
                    usb.exc.origin \in {"_read", "read", "parse"}

\* A send_receive whose receive ended with the segment error, after one write
\* and three reads.
C9_Witness ==
    /\ usb.op = "send_receive"
    /\ usb.pc = "raised"
    /\ usb.exc = Exc("GNetException", "_read")
    /\ Len(IoOf("write")) = 1
    /\ Len(IoOf("receive")) = 1
    /\ Len(IoOf("read")) = 3

\* The packets read by the call, in order.
Reads == IoOf("read")

\* Packet i was read whole and starts with the length byte 63.
WellFormed(i) ==
    /\ Reads[i].exc = NoExc
    /\ Len(Reads[i].data) = 64
    /\ Reads[i].data[1] = 63

\* The content of packet i (without its first byte), trailing NULs removed,
\* ends in the terminator.
ContentTerminated(i) ==
    LET data == Reads[i].data
        last == { k \in 2..Len(data) : data[k] # 0 }
    IN  last # {} /\ data[SetMax(last)] = 126

\* The bytes after the length byte of each of the n packets read, one after
\* the other, without the NULs at the end.
Reassembled ==
    LET all == [k \in 1..(63 * Len(Reads)) |->
                   Reads[((k - 1) \div 63) + 1].data[((k - 1) % 63) + 2]]
        last == { k \in 1..Len(all) : all[k] # 0 }
    IN  SubSeq(all, 1, SetMax(last))

\* C10: a receive never reads more than 3 packets and reads none after a
\* packet whose content, NUL padding stripped, ends in the terminator; when
\* the last packet read is well formed and ends so, _read returns the
\* unescaped concatenation of the contents with the trailing NULs stripped;
\* it raises the segment error exactly when 3 well-formed packets were read
\* and none ended in the terminator, and waits for a further packet only
\* while fewer than 3 were read.
C10_SegmentedReceive ==
    usb.op \in {"receive", "send_receive"} =>
        LET n == Len(Reads)
            unterminated == \A i \in 1..n : WellFormed(i) /\ ~ContentTerminated(i)
        IN  /\ n <= 3
            /\ \A i \in 1..(n - 1) : WellFormed(i) /\ ~ContentTerminated(i)
            /\ (n >= 1 /\ WellFormed(n) /\ ContentTerminated(n)) =>
                  /\ usb.pc \in {"returned", "raised"}
                  /\ usb.raw = Some(unescape(Reassembled))
                  /\ usb.pc = "raised" => usb.exc.origin = "parse"
            /\ (n = 3 /\ unterminated) =>
                  /\ usb.pc = "raised"
                  /\ usb.exc = Exc("GNetException", "_read")
            /\ usb.exc = Exc("GNetException", "_read") =>
                  n = 3 /\ unterminated
            /\ usb.pc = "read" => n < 3 /\ unterminated
            /\ usb.raw # NoneBytes =>
                  n >= 1 /\ WellFormed(n) /\ ContentTerminated(n)

\* receive(parse=False) fed the two segments of test_usbtransport_receive
\* returns the 63 payload bytes followed by 00 00 7E.
C10_Witness ==
    /\ usb.op = "receive"
    /\ usb.pc = "returned"
    /\ Len(Reads) = 2
    /\ <<Reads[1].data, Reads[2].data>> = TestSegments
    /\ usb.result.msg = Some([i \in 1..63 |-> i - 1] \o <<0, 0, 126>>)

\* Packet i was read and its first byte is not 63.
WrongLengthByte(i) ==
    /\ Reads[i].exc = NoExc
    /\ Reads[i].data # <<>>
    /\ Reads[i].data[1] # 63

\* C11: when a packet read by a receive has a first byte other than 63, the
\* call raises at that packet (the assertion of _read): it is the last packet
\* read, nothing is written to the handle after it, receive was called once,
\* and no message is returned or kept.
C11_MalformedSegmentFails ==
    usb.op \in {"receive", "send_receive"} =>
        \A i \in 1..Len(Reads) :
            WrongLengthByte(i) =>
                /\ i = Len(Reads)
                /\ usb.io[Len(usb.io)] = Reads[i]
                /\ Len(IoOf("receive")) = 1
                /\ usb.pc = "raised"
                /\ usb.exc = Exc("AssertionError", "_read")
                /\ usb.raw = NoneBytes
                /\ usb.result = NoResponse

\* A second packet whose first byte is 62 and whose content is a valid
\* response ended the receive with the error.
C11_Witness ==
    /\ usb.op = "receive"
    /\ Len(Reads) = 2
    /\ WrongLengthByte(2)
    /\ Reads[2].data[1] = 62
    /\ usb.pc = "raised"

(***************************************************************************)
(* Claims about GNetResponseMessage.parse.                                 *)
(***************************************************************************)
\* The message of the object has a status byte and it is the timeout code.
StatusIsTimeout ==
    /\ gnrm.obj.msg # NoneBytes
    /\ Len(gnrm.obj.msg[1]) >= 2
    /\ gnrm.obj.msg[1][2] = GNET_TIMEOUT

\* C12: parse raises GNetTimeoutException for every message whose status
\* byte is the timeout code, whatever its terminator and checksum are, and
\* for no other message; it never raises the plain GNetException for one.
C12_TimeoutWins ==
    gnrm.last = "parse" =>
        /\ StatusIsTimeout =>
              gnrm.exc = "GNetTimeoutException" /\ gnrm.why = "timeout"
        /\ gnrm.exc = "GNetTimeoutException" => StatusIsTimeout
        /\ gnrm.exc = "GNetException" => ~StatusIsTimeout

\* A timeout response with a wrong checksum and a wrong terminator was parsed.
C12_Witness ==
    /\ gnrm.last = "parse"
    /\ gnrm.obj.msg =
          Some(BadTerminator(BadChecksum(ResponseFrame(GNET_TIMEOUT, <<1, 2>>))))
    /\ gnrm.exc = "GNetTimeoutException"

\* One byte of a response that was valid was overwritten with another value,
\* and the object was parsed after that.
AlteredValidParsed ==
    /\ gnrm.last = "parse"
    /\ gnrm.at # 0
    /\ gnrm.orig # NoneBytes
    /\ gnrm.orig[1] \in ValidResponses

\* C13 (as amended): after any single byte of a valid response was changed
\* to another value, parse raises: GNetTimeoutException or the response-code
\* GNetException when the status byte was changed (the first exactly when
\* the new value is the timeout code), the terminator GNetException when the
\* last byte was changed, and the checksum GNetException when any other byte
\* (first byte, payload, checksum) was changed.
C13_SingleByteAlterationRejected ==
    AlteredValidParsed =>
        LET msg == gnrm.obj.msg[1]
        IN  /\ gnrm.exc \in {"GNetException", "GNetTimeoutException"}
            /\ gnrm.at = 2 =>
                  /\ gnrm.why \in {"timeout", "response code"}
                  /\ gnrm.why = "timeout" <=> msg[2] = GNET_TIMEOUT
            /\ gnrm.at = Len(msg) => gnrm.why = "terminator"
            /\ gnrm.at \notin {2, Len(msg)} => gnrm.why = "checksum"

\* C13 as stated: every single-byte change of a valid response makes parse
\* raise the checksum error.
C13_AsStated == AlteredValidParsed => gnrm.why = "checksum"

\* A payload byte of a valid response was changed and parse raised the
\* checksum error.
C13_Witness ==
    /\ AlteredValidParsed
    /\ gnrm.at = 4
    /\ Len(gnrm.obj.msg[1]) = 8
    /\ gnrm.why = "checksum"

\* C14: after every parse, the response of the object is unset when that
\* parse raised, and is the bytes between the status byte and the checksum
\* when it returned; this holds too when the object was parsed before and a
\* byte of its message was changed since.
C14_PayloadOnlyAfterVerifiedParse ==
    gnrm.last = "parse" =>
        IF gnrm.exc # "None"
        THEN gnrm.obj.response = NoneBytes
        ELSE LET msg == gnrm.obj.msg[1]
             IN  gnrm.obj.response = Some(SubSeq(msg, 3, Len(msg) - 3))

(***************************************************************************)
(* Claims about GNetMessage.                                               *)
(***************************************************************************)
\* The echo of every constructed message parses, and gives the data back.
EchoGivesData ==
    gmsg.echo.done =>
        /\ gmsg.echo.exc = "None"
        /\ gmsg.echo.bytes = Some(gmsg.message.data)

\* C15: GNetMessage(address, command, data) has its bytes for every address
\* and command in 0..255 and every data of up to 250 bytes, and the echo of
\* it (first byte, ack status, the data, checksum of those, terminator)
\* parses and gives exactly the data back.
C15_BuildRoundTrip ==
    /\ gmsg.out.done => gmsg.out.exc = "None"
    /\ EchoGivesData

(***************************************************************************)
(* Claims about escape and unescape.                                       *)
(***************************************************************************)
\* C16: for every byte string x ending in the terminator, with any
\* arrangement of 7D, 7E, 5D and 5E before it, unescape(escape(x)) is x.
C16_UnescapeInvertsEscape ==
    ppp.back # NoneBytes => ppp.back = Some(ppp.x)

\* 7D 5E 7E 5D 7E went through escape and unescape and came back.
C16_Witness ==
    /\ ppp.x = <<125, 94, 126, 93, 126>>
    /\ ppp.back = Some(ppp.x)

\* x ends in the terminator.
EndsInTerminator == ppp.x # <<>> /\ ppp.x[Len(ppp.x)] = 126

\* The output of escape holds 7E once, as its last byte, and every 7D in it
\* is followed by 5D or 5E.
WellStuffed(out) ==
    /\ out # <<>>
    /\ \A i \in 1..Len(out) : out[i] = 126 <=> i = Len(out)
    /\ \A i \in 1..Len(out) :
          out[i] = 125 => i < Len(out) /\ out[i + 1] \in {93, 94}

\* C17 (as amended): escape returns for every byte string ending in the
\* terminator, and its output holds 7E exactly once, as the last byte, and
\* every 7D in it is followed by 5D or 5E; escape fails with the assertion
\* for a non-empty byte string not ending in the terminator, and with
\* IndexError for the empty one.
C17_EscapeOutput ==
    ppp.escaped =>
        /\ EndsInTerminator =>
              ppp.esc.exc = NoExc /\ WellStuffed(ppp.esc.out)
        /\ (ppp.x # <<>> /\ ~EndsInTerminator) =>
              ppp.esc.exc = Exc("AssertionError", "escape")
        /\ ppp.x = <<>> => ppp.esc.exc = Exc("IndexError", "escape")

\* C17 as stated: the same, with the assertion failing for every byte string
\* that does not end in the terminator.
C17_AsStated ==
    ppp.escaped =>
        /\ EndsInTerminator =>
              ppp.esc.exc = NoExc /\ WellStuffed(ppp.esc.out)
        /\ ~EndsInTerminator => ppp.esc.exc.type = "AssertionError"

\* 7E 7D 7E 7E was escaped to 7D 5E 7D 5D 7D 5E 7E.
C17_Witness ==
    /\ ppp.escaped
    /\ ppp.x = <<126, 125, 126, 126>>
    /\ ppp.esc.out = <<125, 94, 125, 93, 125, 94, 126>>

\* s holds 7D 5D 5E: an escaped 7D with a 5E behind it.
HasEscapedEscThen5E(s) ==
    \E i \in 1..(Len(s) - 2) : s[i] = 125 /\ s[i + 1] = 93 /\ s[i + 2] = 94

\* An output of escape went through the replacements in both orders.
BothOrdersDone == ppp.back # NoneBytes /\ ppp.swapped # NoneBytes

\* C18 (as amended): the order of the two replacements matters: in the order
\* of unescape (7D 5E first, 7D 5D second) an output of escape gives back
\* what was escaped, and the other order gives the same bytes exactly when
\* the output holds no 7D 5D 5E.
C18_OrderMatters ==
    BothOrdersDone =>
        /\ ppp.back = Some(ppp.x)
        /\ ppp.swapped = ppp.back <=> ~HasEscapedEscThen5E(ppp.esc.out)

\* C18 as stated: for every output of escape the two orders of the
\* replacements give the same bytes.
C18_AsStated == BothOrdersDone => ppp.swapped = ppp.back

\* 7D 5E 7E is escaped to 7D 5D 5E 7E; unescape gives 7D 5E 7E back and the
\* other order gives 7E 7E.
C18_Witness ==
    /\ BothOrdersDone
    /\ ppp.x = <<125, 94, 126>>
    /\ ppp.back = Some(<<125, 94, 126>>)
    /\ ppp.swapped = Some(<<126, 126>>)

(***************************************************************************)
(* Claims about USBTransport.send.                                         *)
(***************************************************************************)
\* send was called, alone or by send_receive, with a constructed message.
SentConstructed ==
    /\ usb.op \in {"send", "send_receive"}
    /\ usb.message.msg # NoneBytes

\* The handle was written to once, with the header byte 0x80 + length of the
\* escaped message followed by the escaped message.
OneWriteOfEscaped ==
    LET escaped == escape(usb.message.msg[1]).out
        writes == IoOf("write")
    IN  /\ Len(writes) = 1
        /\ Len(writes[1].data) = Len(escaped) + 1
        /\ writes[1].data[1] = 128 + Len(escaped)
        /\ writes[1].data[1] <= 255
        /\ SubSeq(writes[1].data, 2, Len(escaped) + 1) = escaped

\* C19 (as amended): a send of a constructed message whose escaped length is
\* at most 127 makes exactly one write to the handle, of the header byte
\* 0x80 + length followed by the escaped message; a send of a longer one
\* raises and writes nothing.
C19_SendWritesOnce ==
    SentConstructed =>
        IF Len(escape(usb.message.msg[1]).out) <= 127
        THEN OneWriteOfEscaped
        ELSE /\ Len(IoOf("write")) = 0
             /\ usb.pc = "raised"
             /\ usb.exc = Exc("ValueError", "send")

\* C19 as stated: every send of a constructed message makes exactly one
\* write of the header byte and the escaped message.
C19_AsStated == SentConstructed => OneWriteOfEscaped

\* The message 02 7E 7D 7E 5D was sent: one write of 12 bytes, the header
\* 0x8B and the escaped message starting 02 7D 5E 7D 5D 7D 5E 5D.
C19_Witness ==
    /\ usb.op = "send"
    /\ usb.pc = "returned"
    /\ usb.message.data = <<125, 126, 93>>
    /\ Len(IoOf("write")) = 1
    /\ SubSeq(IoOf("write")[1].data, 1, 9)
          = <<139, 2, 125, 94, 125, 93, 125, 94, 93>>

(***************************************************************************)
(* Claims about wakeup_all and shutdown_all.                               *)
(***************************************************************************)
\* The four sends of a call that returned: the wakeup command to the
\* broadcast address, the first data twice, then the second data twice.
FourSends(c, first, second) ==
    /\ Len(c.calls) = 4
    /\ \A i \in 1..4 :
          /\ c.calls[i].fn = "send"
          /\ c.calls[i].msg.address = 255
          /\ c.calls[i].msg.command = 58
          /\ c.calls[i].msg.data = IF i <= 2 THEN first ELSE second
          /\ c.calls[i].msg.msg =
                Some(construct(255, 58, IF i <= 2 THEN first ELSE second))

\* C20: a wakeup_all that returns has made exactly 4 sends and no receive,
\* of the wakeup command to the broadcast address, with the data 03 7F
\* twice and then 03 01 twice; a shutdown_all that returns has made exactly
\* 4 sends and no receive, of the same command, with 03 02 twice and then
\* 03 00 twice; a call in which a send raises has made only sends, at most
\* 4, and none after the one that raised.
C20_FourBroadcasts ==
    \A k \in 1..Len(bus) :
        LET c == bus[k]
        IN  /\ \A i \in 1..Len(c.calls) : c.calls[i].fn = "send"
            /\ Len(c.calls) <= 4
            /\ c.exc = NoExc =>
                  /\ c.op = "wakeup_all" => FourSends(c, <<3, 127>>, <<3, 1>>)
                  /\ c.op = "shutdown_all" => FourSends(c, <<3, 2>>, <<3, 0>>)

\* wakeup_all and then shutdown_all, as in
\* test_SAMGroup_wakeup_all_shutdown_all, both returned.
C20_Witness ==
    /\ Len(bus) = 2
    /\ bus[1].op = "wakeup_all" /\ bus[1].exc = NoExc
    /\ bus[2].op = "shutdown_all" /\ bus[2].exc = NoExc
    /\ Len(bus[1].calls) = 4 /\ Len(bus[2].calls) = 4

(***************************************************************************)
(* Claims about building a GNetMessage.                                    *)
(***************************************************************************)
\* C21: a GNetMessage is built exactly when its address and its command have
\* both been given, whatever their values in 0..255; bytes() of a message
\* that was not built fails with the not-constructed assertion.
C21_BuiltWhenBothSet ==
    /\ (/\ gmsg.last = "init"
        /\ gmsg.message.address \in 0..255
        /\ gmsg.message.command \in 0..255)
           => gmsg.message.msg # NoneBytes
    /\ (gmsg.out.done /\ gmsg.message.msg = NoneBytes)
           => gmsg.out.exc = "AssertionError"

(***************************************************************************)
(* Claims about the devices.                                               *)
(***************************************************************************)
\* The last call was a poll that the transport answered with an acked
\* response.
PollAnswered == mon.op = "poll" /\ mon.out.exc = NoExc

\* The fields the last poll returned.
Decoded == IF mon.ret = <<>> THEN {} ELSE DOMAIN mon.ret[1]

\* C22: for the USBAdapter and for a SAMMonitor, a poll answered with an
\* empty acked payload raises nothing and leaves poll_fields as it was; a
\* poll answered with any other payload changes only the fields it decoded
\* and removes none.
C22_EmptyPollChangesNothing ==
    PollAnswered =>
        /\ mon.out.response = Some(<<>>)
              => mon.exc = NoExc /\ mon.poll_fields = mon.before
        /\ DOMAIN mon.before \subseteq DOMAIN mon.poll_fields
        /\ \A k \in DOMAIN mon.before \ Decoded :
              mon.poll_fields[k] = mon.before[k]

\* The value bytes 3..5 of the payload of the last poll hold.
SplRaw == FromBytesBigSigned(PySlice(mon.out.response[1], 3, 6))

\* C23: the poll of the USBAdapter returns and stores microphone_dBSPL,
\* converted from the signed value of bytes 3..5, only when that value is
\* above zero; otherwise it returns no such field and writes none.
C23_MicrophoneOnlyWhenPositive ==
    (PollAnswered /\ mon.kind = "USBAdapter") =>
        IF SplRaw > 0
        THEN /\ mon.ret = <<[k \in {"microphone_dBSPL"} |->
                               dBSPL_from_sint24(SplRaw)]>>
             /\ mon.poll_fields["microphone_dBSPL"] = dBSPL_from_sint24(SplRaw)
        ELSE /\ "microphone_dBSPL" \notin Decoded
             /\ mon.poll_fields = mon.before

\* The bits set in the byte n.
Bits(n) == { i \in 0..7 : (n \div (2 ^ i)) % 2 = 1 }

\* The bits an Optional[bool] argument sets at position i.
FlagBit(flag, i) == IF flag = 1 THEN {i} ELSE {}

\* The bits a led_color argument sets: its two low bits, at positions 1, 2.
ColorBits(led_color) ==
    IF led_color.kind = "None" THEN {}
    ELSE { i + 1 : i \in Bits(led_color.code) \cap {0, 1} }

\* The one message with a 1-byte payload whose bits are exactly want.
SentBypassByte(want) ==
    /\ Len(mon.msgs) = 1
    /\ mon.msgs[1].address = mon.address
    /\ mon.msgs[1].command = CID_BYPASS_QUERY
    /\ Len(mon.msgs[1].data) = 1
    /\ Bits(mon.msgs[1].data[1]) = want
    /\ mon.msgs[1].msg
           = Some(construct(mon.address, CID_BYPASS_QUERY, mon.msgs[1].data))

\* C24: bypass(value, mute, led_color, led_pulsing, invert_led_enable) with
\* value in 0..255 hands send_receive exactly one message, to the monitor's
\* own address, with CID_BYPASS_QUERY and one byte of data whose set bits
\* are those of value, bit 0 if mute, the two low bits of the colour code at
\* bits 1 and 2, bit 3 if pulsing and bit 4 if invert; absent arguments set
\* nothing and no bit of value is cleared. mute(b) sends the message of
\* bypass(mute=b).
C24_BypassByte ==
    /\ mon.op = "bypass" =>
          /\ SentBypassByte(Bits(mon.args.value)
                            \cup FlagBit(mon.args.mute, 0)
                            \cup ColorBits(mon.args.led_color)
                            \cup FlagBit(mon.args.led_pulsing, 3)
                            \cup FlagBit(mon.args.invert_led_enable, 4))
          /\ Bits(mon.args.value) \subseteq Bits(mon.msgs[1].data[1])
          /\ mon.exc = mon.out.exc
    /\ mon.op = "mute" =>
          /\ SentBypassByte(FlagBit(mon.args.mute, 0))
          /\ mon.exc = mon.out.exc

\* A bypass with every argument present, a named colour and a value with
\* bits outside the flags: 128 | 1 | 3 << 1 | 1 << 3 | 1 << 4.
C24_Witness ==
    /\ mon.op = "bypass"
    /\ mon.args.value = 128
    /\ mon.args.mute = 1
    /\ mon.args.led_color.kind = "str"
    /\ mon.args.led_color.code = 3
    /\ mon.args.led_pulsing = 1
    /\ mon.args.invert_led_enable = 1
    /\ mon.exc = NoExc
    /\ mon.msgs[1].data = <<159>>

\* The int16 gain encoded by two big-endian two's-complement bytes.
Int16Of(b) == FromBytesBigSigned(b)

\* C25: set_digisum_gain(gain) with gain in -32768..32767 hands send_receive
\* one message, to the monitor's own address, with CID_DIGISUM_GAIN and two
\* bytes of data that are the big-endian two's complement of gain.
C25_GainSentSigned ==
    (/\ mon.op = "set_digisum_gain"
     /\ mon.args.gain \in -32768..32767)
        => /\ Len(mon.msgs) = 1
           /\ mon.msgs[1].address = mon.address
           /\ mon.msgs[1].command = CID_DIGISUM_GAIN
           /\ Len(mon.msgs[1].data) = 2
           /\ Int16Of(mon.msgs[1].data) = mon.args.gain

\* The part of C25 that holds: a gain of 0..32767 is sent as its two
\* big-endian bytes.
GainSentWhenNotNegative ==
    (/\ mon.op = "set_digisum_gain"
     /\ mon.args.gain \in 0..32767)
        => /\ Len(mon.msgs) = 1
           /\ mon.msgs[1].address = mon.address
           /\ mon.msgs[1].command = CID_DIGISUM_GAIN
           /\ Len(mon.msgs[1].data) = 2
           /\ Int16Of(mon.msgs[1].data) = mon.args.gain

\* Bit k (from 1, most significant bit of the first byte first) of data
\* followed by zeros.
MessageBit(data, k) ==
    IF k > 8 * Len(data) THEN 0
    ELSE (data[((k - 1) \div 8) + 1] \div (2 ^ (7 - ((k - 1) % 8)))) % 2

\* One step of the division by x^16 + x^12 + x^5 + 1: the next bit is
\* shifted in, and 0x1021 subtracted when a bit is shifted out.
DivStep(reg, bit) ==
    LET shifted == ((reg * 2) % 65536) + bit
    IN  IF reg >= 32768 THEN Xor(shifted, 4129) ELSE shifted

RECURSIVE DivRange(_, _, _, _)
\* The register after the bits lo..hi, from the 16-bit register reg.
DivRange(reg, data, lo, hi) ==
    IF reg >= 65536 \/ lo > hi THEN reg % 65536
    ELSE IF lo = hi THEN DivStep(reg, MessageBit(data, lo))
    ELSE LET mid == (lo + hi) \div 2
         IN  DivRange(DivRange(reg, data, lo, mid), data, mid + 1, hi)

\* CRC-16/GSM by definition: the remainder of data * x^16 divided by the
\* polynomial 0x1021, from the register 0, bits not reflected, XOR 0xFFFF.
Crc16Gsm(data) == 65535 - DivRange(0, data, 1, (8 * Len(data)) + 16)

\* C26: a constructed message is address, command, data, the CRC-16/GSM of
\* exactly those bytes as two bytes, high byte first, and 0x7E; for 02 08
\* and no data it is 02 08 18 95 7E, for FF 04 and "ab" it is
\* FF 04 61 62 1C 63 7E; constructing again from the same fields gives the
\* same bytes.
C26_BuildBytes ==
    gmsg.message.msg # NoneBytes =>
        LET m == gmsg.message
            body == <<m.address, m.command>> \o m.data
            crc == Crc16Gsm(body)
        IN  /\ m.msg[1] = body \o <<crc \div 256, crc % 256, 126>>
            /\ (m.address = 2 /\ m.command = 8 /\ m.data = <<>>)
                   => m.msg[1] = <<2, 8, 24, 149, 126>>
            /\ (m.address = 255 /\ m.command = 4 /\ m.data = <<97, 98>>)
                   => m.msg[1] = <<255, 4, 97, 98, 28, 99, 126>>

\* GNetMessage(0xFF, 0x04, b"ab"), constructed by __init__ and once more by
\* construct().
C26_Witness ==
    /\ gmsg.last = "construct"
    /\ gmsg.message.address = 255
    /\ gmsg.message.command = 4
    /\ gmsg.message.data = <<97, 98>>
    /\ gmsg.message.msg = Some(<<255, 4, 97, 98, 28, 99, 126>>)

\* The highest address registered before the generator in use discovered
\* anything (1 when there is none).
HighestBefore == IF KeysBefore = {} THEN 1 ELSE SetMax(KeysBefore)

\* C29: a discover_monitors generator makes at most 126 race calls, and at
\* most one per address from the highest registered address + 1 up to 127,
\* whatever the races answer; a new device is yielded at an address of at
\* most 127; and with address 127 (or a higher one) registered beforehand
\* it calls neither race nor assign_address and yields no new device.
C29_DiscoverBounded ==
    /\ Len(RaceCalls) <= 126
    /\ Len(RaceCalls) <= (IF HighestBefore >= 127 THEN 0
                          ELSE 127 - HighestBefore)
    /\ gen.pc = "yielded" => gen.addr <= 127
    /\ 127 \in KeysBefore => (calls = <<>> /\ NewYielded = <<>>)

\* A generator that ran to its end with 127 already assigned by an earlier
\* one: no call was made and nothing new was yielded.
C29_Witness ==
    /\ gen.pc = "done"
    /\ 127 \in KeysBefore
    /\ EarlierDiscovered
    /\ calls = <<>>
    /\ NewYielded = <<>>

\* A generator that ended because the addresses ran out, its last race
\* having been answered with a serial.
EndedByRange ==
    /\ gen.pc = "done"
    /\ calls # <<>>
    /\ LastCall.op = "assign_address"
    /\ 127 \in NewAddrs

\* C30: the message _read hands back to receive (after unescape) is never
\* empty and ends in the terminator 0x7E, so parse does not raise its
\* terminator error on it; a receive that returns, returns an object holding
\* that message.
C30_ReadEndsInTerminator ==
    usb.raw # NoneBytes =>
        /\ usb.raw[1] # <<>>
        /\ usb.raw[1][Len(usb.raw[1])] = 126
        /\ parse(NewResponse(usb.raw[1])).why # "terminator"
        /\ usb.pc = "returned" => usb.result.msg = usb.raw

\* A receive that returned a message of two packets with a terminator byte
\* inside it, unescaped from its pair.
C30_Witness ==
    /\ usb.pc = "returned"
    /\ usb.raw # NoneBytes
    /\ Len(usb.segments) = 2
    /\ \E i \in 1..(Len(usb.raw[1]) - 1) : usb.raw[1][i] = 126

\* A message _read handed back whose last bytes are a lone escape byte and
\* the terminator.
ReadStrayEscape ==
    /\ usb.raw # NoneBytes
    /\ usb.raw[1] = <<126, 125, 126>>

\* The trace of the handle.
HidLog == hid.log

\* The transport calls in progress.
CallsInProgress ==
    { i \in 1..Len(hid.stack) :
        hid.stack[i].fn \in ReceivingCalls \cup SendingCalls }

\* C27: on one session no two transport calls overlap on the handle: at
\* most one is in progress, also while a discover_monitors generator is
\* suspended at its yield; after the write of a send_receive no write
\* happens before that call has ended (returned or raised); and every read
\* of the handle comes after the write of the same call with nothing but
\* reads of that call in between.
C27_NoOverlapOnHandle ==
    /\ Cardinality(CallsInProgress) <= 1
    /\ \A i \in 1..Len(HidLog) : \A j \in (i + 1)..Len(HidLog) :
          (/\ HidLog[i].ev = "write"
           /\ HidLog[i].fn \in ReceivingCalls
           /\ HidLog[j].ev = "write")
              => \E m \in (i + 1)..(j - 1) :
                    HidLog[m].ev = "end" /\ HidLog[m].id = HidLog[i].id
    /\ \A j \in 1..Len(HidLog) :
          HidLog[j].ev = "read"
              => \E i \in 1..(j - 1) :
                    /\ HidLog[i].ev = "write"
                    /\ HidLog[i].id = HidLog[j].id
                    /\ \A m \in (i + 1)..(j - 1) :
                          HidLog[m].ev = "read" /\ HidLog[m].id = HidLog[j].id

\* The command wrote and read for a device method of its own while the
\* generator was suspended at its yield, after a race and an assignment.
C27_Witness ==
    /\ hid.genpc = "suspended"
    /\ Len(HidLog) >= 8
    /\ HidLog[1].fn = "race"
    /\ \E i \in 1..Len(HidLog) : HidLog[i].fn = "assign_address"
    /\ HidLog[Len(HidLog)].fn = "query"
    /\ HidLog[Len(HidLog)].ev = "read"

\* The polls the command made, in order.
Polled == cmd.polled

\* The poll command was aborted by the exception of a poll.
AbortedByPoll == cmd.pc = "aborted" /\ cmd.why = "poll"

\* The poll after poll i is that of place idx of round round; when poll i is
\* the last one made, the command stands there.
GoesOnWith(i, round, idx) ==
    IF i = Len(Polled)
    THEN cmd.pc = "polling" /\ cmd.round = round /\ cmd.pos = idx
    ELSE Polled[i + 1].round = round /\ Polled[i + 1].idx = idx

\* C28: in the poll command a GNetTimeoutException of one monitor.poll()
\* does not abort the command: the next device of the round is polled, and
\* after the last device the next round runs when one is left (unless the
\* discover_monitors between the rounds raises); any other exception of a
\* poll aborts the command, and no device is polled after it.
C28_TimeoutSkipsErrorAborts ==
    \A i \in 1..Len(Polled) :
        LET e == Polled[i]
        IN  /\ e.exc \notin {"None", "GNetTimeoutException"}
                  => i = Len(Polled) /\ AbortedByPoll
            /\ e.exc \in {"None", "GNetTimeoutException"}
                  => /\ ~(i = Len(Polled) /\ AbortedByPoll)
                     /\ e.idx < e.ndev => GoesOnWith(i, e.round, e.idx + 1)
                     /\ (e.idx = e.ndev /\ e.left > 0)
                           => \/ GoesOnWith(i, e.round + 1, 1)
                              \/ /\ i = Len(Polled)
                                 /\ cmd.pc = "aborted"
                                 /\ cmd.why = "discover"

\* The first device timed out, the other devices of the round and a second
\* round were polled, and a poll of the second round raised an exception
\* that is no timeout: the command was aborted there.
C28_Witness ==
    /\ AbortedByPoll
    /\ Len(Polled) >= 4
    /\ Polled[1].exc = "GNetTimeoutException"
    /\ Polled[1].ndev >= 2
    /\ Polled[Len(Polled)].round = 2
    /\ Polled[Len(Polled)].exc = "GNetException"
    /\ Polled[Len(Polled)].idx < Polled[Len(Polled)].ndev

\* parse was called on a message of 1 to 4 bytes.
ShortParsed ==
    /\ gnrm.last = "parse"
    /\ gnrm.obj.msg # NoneBytes
    /\ Len(gnrm.obj.msg[1]) \in 1..4

\* C31: parse of a message of 1 to 4 bytes raises GNetTimeoutException or
\* GNetException (timeout, response code, terminator or checksum), never
\* another exception, and leaves no response.
C31_ShortFrameRejected ==
    ShortParsed =>
        /\ gnrm.exc \in {"GNetTimeoutException", "GNetException"}
        /\ gnrm.obj.response = NoneBytes

\* No message of one byte has a checksum whose high byte is the ack code:
\* a message of 4 bytes with the ack code never passes the checksum test.
NoShortChecksumMatch ==
    \A x \in 0..BYTE_MAX : gsm16(<<x>>) \div 256 # GNET_ACK

\* The part of C31 that holds: no message of 1 to 4 bytes yields a
\* response, and one of 2 to 4 bytes is rejected with GNetTimeoutException
\* or GNetException.
ShortFrameNoPayload ==
    /\ NoShortChecksumMatch
    /\ ShortParsed =>
          /\ gnrm.exc # "None"
          /\ gnrm.obj.response = NoneBytes
          /\ Len(gnrm.obj.msg[1]) >= 2
                => gnrm.exc \in {"GNetTimeoutException", "GNetException"}
          /\ Len(gnrm.obj.msg[1]) = 1 => gnrm.exc = "IndexError"

\* The length of the escaped message of the call.
EscapedLen == Len(escape(usb.message.msg[1]).out)

\* C32: the header byte of a write never wraps: every write to the handle
\* is a header byte 0x80 + n in 0x80..0xFF followed by exactly n <= 127
\* bytes; a send of a constructed message whose escaped length is above 127
\* raises and writes nothing, one of at most 127 writes its 0x80 + length.
C32_HeaderNeverWraps ==
    /\ \A i \in 1..Len(usb.io) :
          usb.io[i].op = "write"
              => /\ Len(usb.io[i].data) - 1 <= 127
                 /\ usb.io[i].data[1] = 128 + (Len(usb.io[i].data) - 1)
                 /\ usb.io[i].data[1] \in 128..255
    /\ SentConstructed =>
          IF EscapedLen > 127
          THEN /\ IoOf("write") = <<>>
               /\ usb.pc = "raised"
               /\ usb.exc.type \notin {"None", "HIDException"}
          ELSE /\ Len(IoOf("write")) = 1
               /\ IoOf("write")[1].data[1] = 128 + EscapedLen

\* A message of 67 bytes with 62 bytes to escape, 129 bytes escaped, was
\* handed to send: it raised and nothing was written.
C32_Witness ==
    /\ usb.op = "send"
    /\ usb.message = ManyEscapesMessage
    /\ Len(usb.message.msg[1]) = 67
    /\ EscapedLen > 127
    /\ usb.pc = "raised"
    /\ IoOf("write") = <<>>

\* The message of 127 escaped bytes was written with the header 0xFF, the
\* one of 128 was refused.
HeaderLimitReached ==
    \/ /\ usb.message = LongestSentMessage
       /\ usb.pc = "returned"
       /\ IoOf("write")[1].data[1] = 255
    \/ /\ usb.message = ShortestRefusedMessage
       /\ usb.pc = "raised"
       /\ IoOf("write") = <<>>

(***************************************************************************)
(* Claims about the bytes of the frames handed to the transport.           *)
(***************************************************************************)
\* The bytes of the message are those construct makes of its fields.
BuiltFromFields(m) ==
    m.msg = Some(construct(m.address, m.command, m.data))

\* The frames handed to the transport so far: by wakeup_all, shutdown_all
\* and set_volume_glm, by race and assign_address, and by the methods of a
\* device.
HandedFrames ==
    UNION { { bus[k].calls[i].msg : i \in 1..Len(bus[k].calls) } :
              k \in 1..Len(bus) }
      \cup { sent[i].msg : i \in 1..Len(sent) }
      \cup (IF mon = NoDevice THEN {}
            ELSE { mon.msgs[i] : i \in 1..Len(mon.msgs) })

\* Every frame handed over has the bytes of its fields.
AllHandedFramesBuilt == \A m \in HandedFrames : BuiltFromFields(m)

\* The set_volume_glm calls that got as far as send.
VolumeSends ==
    { k \in 1..Len(bus) :
        bus[k].op = "set_volume_glm" /\ bus[k].calls # <<>> }

\* C33: every frame handed to the transport has the bytes construct makes
\* of the address, command and data it has then; a set_volume_glm hands
\* over one frame, to the broadcast address with the volume command, whose
\* data are the 3 big-endian bytes of the 24-bit volume and whose bytes
\* hold those data and the CRC over address, command and data, and are not
\* the bytes built of address and command alone.
C33_SentFramesBuilt ==
    /\ AllHandedFramesBuilt
    /\ \A k \in VolumeSends :
          LET m == bus[k].calls[1].msg
          IN  /\ Len(bus[k].calls) = 1
              /\ bus[k].calls[1].fn = "send"
              /\ m.address = GNET_BROADCAST_ADDR
              /\ m.command = CID_VOLUME_GLM
              /\ Len(m.data) = 3
              /\ FromBytesBig(m.data) = vol_sint24_from_dB(bus[k].arg)
              /\ Len(m.msg[1]) = 8
              /\ SubSeq(m.msg[1], 3, 5) = m.data
              /\ FromBytesBig(SubSeq(m.msg[1], 6, 7))
                    = gsm16(<<GNET_BROADCAST_ADDR, CID_VOLUME_GLM>> \o m.data)
              /\ m.msg[1][8] = GNET_TERM
              /\ m.msg[1]
                    # construct(GNET_BROADCAST_ADDR, CID_VOLUME_GLM, <<>>)

\* set_volume_glm(-4.5) returned: the frame FF 1F 4C 3E A7 with its CRC
\* and the terminator was handed to send.
C33_Witness ==
    \E k \in VolumeSends :
        /\ bus[k].arg = -45
        /\ bus[k].exc = NoExc
        /\ bus[k].calls[1].msg.data = <<76, 62, 167>>
        /\ SubSeq(bus[k].calls[1].msg.msg[1], 1, 5) = <<255, 31, 76, 62, 167>>

\* A volume above 0 dB does not fit 24 bits: nothing is handed to send.
VolumeOverflowSendsNothing ==
    \A k \in 1..Len(bus) :
        (bus[k].op = "set_volume_glm" /\ bus[k].arg > 0)
            => bus[k].calls = <<>> /\ bus[k].exc.type = "OverflowError"

====
